---- MODULE Spec2Model ----
(***************************************************************************)
(* Model of the calendar screens of the school-management web application: *)
(* the admin schedule screen (src/unnamed/part_000, AdminSchedule) and the *)
(* teacher schedule screen (src/unnamed/part_001, TeacherSchedule).        *)
(*                                                                         *)
(* Time-of-day strings ("HH:mm") are sequences of character codes: the     *)
(* digits are 0..9 and ':' is 10, which keeps the order of the UTF-16 code *)
(* units ('9' = 57 < ':' = 58).  A missing field is Undefined.             *)
(***************************************************************************)
EXTENDS Integers, Sequences, FiniteSets, TLC

(* ------------------------------ bounds -------------------------------- *)

\* longest day whose events are supplied in every order
MaxEvents == 3
\* number of distinct time strings
NumTimes == 4
\* longest day among the days with an end time at or before the start time
MaxDegenerate == 2
\* longest day among the days supplied in ascending order of (start, end)
MaxDense == 5
\* longest day among the days with a missing start or end time
MaxMalformed == 2

\* first time of day used (08:30) and the distance between two times
FirstMinute == 510
SlotMinutes == 30

\* number of calendar days a date can be picked from (the displayed week is
\* the first seven)
NumDates == 8
\* number of handler runs that write to the remote store; no drag and no
\* edit is started once they have happened
MaxWrites == 2
\* the time of day entered in the edit forms (09:15)
FormMinute == 555

(* --------------------------- JS primitives ---------------------------- *)

Colon == 10
Undefined == <<-1>>

Max(S) == CHOOSE x \in S : \A y \in S : y <= x
MinOf(a, b) == IF a < b THEN a ELSE b

\* dayjs .format("HH:mm"): two zero-padded digits, ':', two zero-padded digits
FormatHHmm(mins) ==
  LET h == mins \div 60
      m == mins % 60
  IN  << h \div 10, h % 10, Colon, m \div 10, m % 10 >>

\* a < b on two strings: comparison of the code units, shorter prefix first
StrLess(a, b) ==
  \E k \in 0..MinOf(Len(a), Len(b)) :
     /\ \A i \in 1..k : a[i] = b[i]
     /\ \/ (k = Len(a) /\ k < Len(b))
        \/ (k < Len(a) /\ k < Len(b) /\ a[k+1] < b[k+1])

\* a < b as JS evaluates it on the time fields: with an undefined operand
\* both sides are converted to numbers, one is NaN and the result is false
JsLess(a, b) ==
  IF a = Undefined \/ b = Undefined THEN FALSE ELSE StrLess(a, b)

\* a.localeCompare(b) for a defined receiver: an undefined argument is
\* compared as the text "undefined", which collates after any digit string
localeCompare(a, b) ==
  IF b = Undefined THEN -1
  ELSE IF StrLess(a, b) THEN -1
  ELSE IF StrLess(b, a) THEN 1
  ELSE 0

\* Number(s) of a string of decimal digits ("" is 0)
RECURSIVE Number(_)
Number(s) ==
  IF s = << >> THEN 0
  ELSE Number(SubSeq(s, 1, Len(s) - 1)) * 10 + s[Len(s)]

\* index of the first ':' of a string
ColonAt(s) == CHOOSE i \in 1..Len(s) : s[i] = Colon /\ \A j \in 1..(i-1) : s[j] # Colon

\* time.split(":").map(Number) -> [hours, minutes]
SplitHM(time) ==
  LET c == ColonAt(time)
  IN  << Number(SubSeq(time, 1, c - 1)), Number(SubSeq(time, c + 1, Len(time))) >>

(* ------------------------------ inputs -------------------------------- *)

\* a time field: the i-th time string, or missing for i = -1
TimeStr(i) == IF i < 0 THEN Undefined ELSE FormatHHmm(FirstMinute + SlotMinutes * i)

\* a schedule event of one day: identity, "Giờ bắt đầu", "Giờ kết thúc"
Event(id, s, e) == [id |-> id, start |-> s, end |-> e]

TimeIndexes == 0..(NumTimes - 1)
PositivePairs == { p \in TimeIndexes \X TimeIndexes : p[1] < p[2] }
AllPairs == TimeIndexes \X TimeIndexes
MissingPairs == { -1, 0, 1 } \X { -1, 0, 1 }

\* the sequences of up to n (start, end) pairs of a set
RECURSIVE PairSeqs(_, _)
PairSeqs(n, pairs) ==
  IF n = 0 THEN { << >> }
  ELSE LET shorter == PairSeqs(n - 1, pairs)
       IN  shorter \cup { Append(d, p) : d \in { x \in shorter : Len(x) = n - 1 }, p \in pairs }

\* the sequences of up to n positive pairs in ascending order of (start, end)
RECURSIVE OrderedSeqs(_)
OrderedSeqs(n) ==
  IF n = 0 THEN { << >> }
  ELSE LET shorter == OrderedSeqs(n - 1)
           more == { x \in { y \in shorter : Len(y) = n - 1 } \X PositivePairs :
                       x[1] # << >> =>
                         LET last == x[1][Len(x[1])]
                         IN  \/ last[1] < x[2][1]
                             \/ (last[1] = x[2][1] /\ last[2] <= x[2][2]) }
       IN  shorter \cup { Append(x[1], x[2]) : x \in more }

ToDay(ps) == [i \in 1..Len(ps) |-> Event(i, TimeStr(ps[i][1]), TimeStr(ps[i][2]))]

HasMissing(d) == \E i \in 1..Len(d) : d[i].start = Undefined \/ d[i].end = Undefined

\* days of up to MaxEvents events of positive duration, in every order
AnyOrderDays == { ToDay(ps) : ps \in PairSeqs(MaxEvents, PositivePairs) }

\* days of up to MaxDegenerate events, in every order, the end of an event
\* at, before or after its start
DegenerateDays == { ToDay(ps) : ps \in PairSeqs(MaxDegenerate, AllPairs) }

\* days of up to MaxDense events of positive duration, supplied in
\* ascending order of (start, end)
DenseDays == { ToDay(ps) : ps \in OrderedSeqs(MaxDense) }

\* days of up to MaxMalformed events in which some start or end is missing
MalformedDays == { d \in { ToDay(ps) : ps \in PairSeqs(MaxMalformed, MissingPairs) } : HasMissing(d) }

\* the day of the chain A[09:00-10:00], B[09:30-10:30], C[10:15-11:00], in
\* every order
ChainEvents ==
  << Event(1, FormatHHmm(9 * 60), FormatHHmm(10 * 60)),
     Event(2, FormatHHmm(9 * 60 + 30), FormatHHmm(10 * 60 + 30)),
     Event(3, FormatHHmm(10 * 60 + 15), FormatHHmm(11 * 60)) >>
ChainDays ==
  { [i \in 1..3 |-> ChainEvents[f[i]]] :
      f \in { g \in [1..3 -> 1..3] : \A i, j \in 1..3 : i # j => g[i] # g[j] } }

Days == AnyOrderDays \cup DegenerateDays \cup DenseDays \cup MalformedDays \cup ChainDays

(* ------------- admin screen: layout of one day (part_000) ------------- *)

\* variant of InsertByStart in which an event whose start equals the start of
\* an earlier event takes its place instead of following it
RECURSIVE InsertByStartDropTies(_, _)
InsertByStartDropTies(sorted, ev) ==
  IF sorted = << >> THEN << ev >>
  ELSE LET last == sorted[Len(sorted)]
       IN  IF ev.start # Undefined /\ localeCompare(ev.start, last.start) < 0
           THEN Append(InsertByStartDropTies(SubSeq(sorted, 1, Len(sorted) - 1), ev), last)
           ELSE IF ev.start # Undefined /\ localeCompare(ev.start, last.start) = 0
           THEN Append(SubSeq(sorted, 1, Len(sorted) - 1), ev)
           ELSE Append(sorted, ev)

\* [...events].sort((a, b) => a.start.localeCompare(b.start)): the sort is
\* stable, so an event goes behind every earlier one that is not greater.
\* An event without start is never the receiver in a run that does not throw
\* and is ordered last (see SortOutcomes).
RECURSIVE InsertByStart(_, _)
InsertByStart(sorted, ev) ==
  IF sorted = << >> THEN << ev >>
  ELSE LET last == sorted[Len(sorted)]
       IN  IF ev.start # Undefined /\ localeCompare(ev.start, last.start) < 0
           THEN Append(InsertByStart(SubSeq(sorted, 1, Len(sorted) - 1), ev), last)
           ELSE Append(sorted, ev)

\* variant of SortByStart that leaves the events in the order given
SortByStartKeepOrder(evs) == evs

RECURSIVE SortByStart(_)
SortByStart(evs) ==
  IF evs = << >> THEN << >>
  ELSE InsertByStart(SortByStart(SubSeq(evs, 1, Len(evs) - 1)), evs[Len(evs)])

\* variant of SpreadSort that sorts the array it was given: events.sort(...)
SortInPlace(evs) == [events |-> SortByStart(evs), sorted |-> SortByStart(evs)]

\* const sorted = [...events].sort(...) (lines 368-370): Array.prototype.sort
\* orders its receiver in place; the receiver is the copy made by the spread.
\* The two arrays after the statement.
SpreadSort(evs) == [events |-> evs, sorted |-> SortByStart(evs)]

\* variant of AdminOverlap that keeps the second comparison only
AdminOverlapOneSided(a, b) == JsLess(b.start, a.end)

\* the test of lines 383 and 409: eventStart < pEnd && eventEnd > pStart
AdminOverlap(a, b) == JsLess(a.start, b.end) /\ JsLess(b.start, a.end)

\* variant of FirstFreeColumn that takes the number of used columns
FirstFreeColumnBySize(used) == Cardinality(used)

\* let column = 0; while (usedColumns.has(column)) column++
FirstFreeColumn(used) ==
  CHOOSE c \in 0..Cardinality(used) : c \notin used /\ \A d \in 0..(c - 1) : d \in used

\* variant of PlaceEvent whose maxColumn ignores the column just assigned
PlaceEventOthersOnly(positioned, event) ==
  LET overlapping == { i \in 1..Len(positioned) : AdminOverlap(event, positioned[i].event) }
      usedColumns == { positioned[i].column : i \in overlapping }
      column == FirstFreeColumn(usedColumns)
      maxColumn == Max({ 1 } \cup { positioned[i].totalColumns : i \in overlapping })
  IN  Append([i \in 1..Len(positioned) |->
                IF i \in overlapping
                THEN [positioned[i] EXCEPT !.totalColumns = maxColumn]
                ELSE positioned[i]],
             [event |-> event, column |-> column, totalColumns |-> maxColumn])

\* one iteration of sorted.forEach (lines 375-397)
PlaceEvent(positioned, event) ==
  LET overlapping == { i \in 1..Len(positioned) : AdminOverlap(event, positioned[i].event) }
      usedColumns == { positioned[i].column : i \in overlapping }
      column == FirstFreeColumn(usedColumns)
      maxColumn == Max({ column + 1 } \cup { positioned[i].totalColumns : i \in overlapping })
  IN  Append([i \in 1..Len(positioned) |->
                IF i \in overlapping
                THEN [positioned[i] EXCEPT !.totalColumns = maxColumn]
                ELSE positioned[i]],
             [event |-> event, column |-> column, totalColumns |-> maxColumn])

\* variant of PlaceAll that takes the sorted events from the last to the first
RECURSIVE PlaceAllBackwards(_, _)
PlaceAllBackwards(sorted, k) ==
  IF k = 0 THEN << >>
  ELSE PlaceEvent(PlaceAllBackwards(sorted, k - 1), sorted[Len(sorted) + 1 - k])

\* sorted.forEach (line 375): the events are placed from the first to the last
RECURSIVE PlaceAll(_, _)
PlaceAll(sorted, k) ==
  IF k = 0 THEN << >> ELSE PlaceEvent(PlaceAll(sorted, k - 1), sorted[k])

\* variant of FinalPass that gives every event of the day the largest
\* totalColumns of the day
FinalPassWholeDay(positioned, i, j) ==
  [k \in 1..Len(positioned) |->
     [positioned[k] EXCEPT
        !.totalColumns = Max({ positioned[x].totalColumns : x \in 1..Len(positioned) })]]

\* the final pass (lines 400-415): for i, for j, in place
RECURSIVE FinalPass(_, _, _)
FinalPass(positioned, i, j) ==
  IF i > Len(positioned) THEN positioned
  ELSE IF j > Len(positioned) THEN FinalPass(positioned, i + 1, 1)
  ELSE IF i = j \/ ~AdminOverlap(positioned[i].event, positioned[j].event)
       THEN FinalPass(positioned, i, j + 1)
  ELSE LET maxCols == Max({ positioned[i].totalColumns, positioned[j].totalColumns })
       IN  FinalPass([positioned EXCEPT ![i].totalColumns = maxCols,
                                        ![j].totalColumns = maxCols], i, j + 1)

\* Whether the sort of line 368 throws (TypeError: localeCompare of
\* undefined).  No comparison is made for fewer than two events.  Two events
\* without start end up adjacent, so they are compared with each other and
\* the call throws.  With one such event the engine's choice of receiver in
\* the deciding comparison is not fixed by the language: both outcomes.
MissingStarts(evs) == { i \in 1..Len(evs) : evs[i].start = Undefined }

SortOutcomes(evs) ==
  IF Len(evs) < 2 \/ MissingStarts(evs) = {} THEN { "ok" }
  ELSE IF Cardinality(MissingStarts(evs)) >= 2 THEN { "threw" }
  ELSE { "ok", "threw" }

\* groupOverlappingEvents(events) when the sort does not throw
groupOverlappingEvents(evs) ==
  IF Len(evs) = 0 THEN << >>
  ELSE LET sorted == SpreadSort(evs).sorted
       IN  FinalPass(PlaceAll(sorted, Len(sorted)), 1, 1)

\* getEventStyle(event) (lines 342-361)
getEventStyle(event) ==
  IF event.start = Undefined \/ event.end = Undefined THEN [top |-> 0, height |-> 60]
  ELSE LET st == SplitHM(event.start)
           en == SplitHM(event.end)
           startOffset == (st[1] - 6) * 60 + st[2]
           endOffset == (en[1] - 6) * 60 + en[2]
           duration == endOffset - startOffset
       IN  [top |-> startOffset, height |-> Max({ duration, 30 })]

\* the event box of positionedEvents.map (lines 1136-1170); left and width
\* are fractions leftNum/den and widthNum/den of (100% - 4px)
AdminBox(p) ==
  LET style == getEventStyle(p.event)
  IN  [id |-> p.event.id, top |-> style.top, height |-> Max({ style.height, 50 }),
       leftNum |-> p.column, widthNum |-> 1, den |-> p.totalColumns]

(* ------------ teacher screen: layout of one day (part_001) ------------ *)

\* timeToMinutes(time) (lines 219-222); the caller guards the missing field
timeToMinutes(time) ==
  LET hm == SplitHM(time) IN hm[1] * 60 + hm[2]

\* timeToMinutes throws on a missing time (TypeError: split of undefined)
WeekEventsOutcome(evs) == IF HasMissing(evs) THEN "threw" ELSE "ok"

\* events.push({...}) of lines 266-277 and the map of lines 283-287
WithColumns(evs) ==
  [i \in 1..Len(evs) |->
     [event |-> evs[i],
      startMinutes |-> timeToMinutes(evs[i].start),
      durationMinutes |-> timeToMinutes(evs[i].end) - timeToMinutes(evs[i].start),
      column |-> 0, totalColumns |-> 1]]

\* dayEvents.sort((a, b) => a.startMinutes - b.startMinutes), as the sequence
\* of the indices of the events in sorted order (stable)
RECURSIVE InsertByMinutes(_, _, _)
InsertByMinutes(ws, order, k) ==
  IF order = << >> THEN << k >>
  ELSE LET last == order[Len(order)]
       IN  IF ws[k].startMinutes - ws[last].startMinutes < 0
           THEN Append(InsertByMinutes(ws, SubSeq(order, 1, Len(order) - 1), k), last)
           ELSE Append(order, k)

RECURSIVE SortByMinutes(_, _)
SortByMinutes(ws, n) ==
  IF n = 0 THEN << >> ELSE InsertByMinutes(ws, SortByMinutes(ws, n - 1), n)

\* the test of lines 306-309
TeacherOverlap(currentEvent, otherEvent) ==
  LET currentEnd == currentEvent.startMinutes + currentEvent.durationMinutes
      otherEnd == otherEvent.startMinutes + otherEvent.durationMinutes
  IN  \/ (otherEvent.startMinutes < currentEnd /\ otherEvent.startMinutes >= currentEvent.startMinutes)
      \/ (currentEvent.startMinutes < otherEnd /\ currentEvent.startMinutes >= otherEvent.startMinutes)

\* variant of TeacherStep whose list of overlapping events does not start
\* with the current event
TeacherStepOthersOnly(ws, order, i) ==
  LET current == order[i]
      Test(k) == k # current /\ TeacherOverlap(ws[current], ws[k])
      overlapping == SelectSeq(order, Test)
  IN  IF Len(overlapping) > 1
      THEN [k \in 1..Len(ws) |->
              IF \E index \in 1..Len(overlapping) : overlapping[index] = k
              THEN LET index == CHOOSE x \in 1..Len(overlapping) : overlapping[x] = k
                   IN  [ws[k] EXCEPT !.column = index - 1, !.totalColumns = Len(overlapping)]
              ELSE ws[k]]
      ELSE ws

\* one iteration of the loop over i (lines 295-322)
TeacherStep(ws, order, i) ==
  LET current == order[i]
      Test(k) == k # current /\ TeacherOverlap(ws[current], ws[k])
      overlapping == << current >> \o SelectSeq(order, Test)
  IN  IF Len(overlapping) > 1
      THEN [k \in 1..Len(ws) |->
              IF \E index \in 1..Len(overlapping) : overlapping[index] = k
              THEN LET index == CHOOSE x \in 1..Len(overlapping) : overlapping[x] = k
                   IN  [ws[k] EXCEPT !.column = index - 1, !.totalColumns = Len(overlapping)]
              ELSE ws[k]]
      ELSE ws

RECURSIVE TeacherLoop(_, _, _)
TeacherLoop(ws, order, i) ==
  IF i = 0 THEN ws ELSE TeacherStep(TeacherLoop(ws, order, i - 1), order, i)

\* the overlap pass of getWeekEvents for the events of one day (lines
\* 282-325); the result keeps the order of the events
getWeekEvents(evs) ==
  LET ws == WithColumns(evs)
  IN  TeacherLoop(ws, SortByMinutes(ws, Len(ws)), Len(ws))

\* the event box of dayEvents.map (lines 836-856); left and width are the
\* percentages leftNum/den and widthNum/den
TeacherBox(e) ==
  [id |-> e.event.id,
   top |-> 60 + (e.startMinutes - 6 * 60),
   height |-> e.durationMinutes - 4,
   leftNum |-> e.column * 100, widthNum |-> 100 - e.totalColumns, den |-> e.totalColumns]

(* ------------------- calendar dates and the day key ------------------- *)

\* A Dayjs value is [day, minute]: the number of the calendar day, counted
\* from the Monday on which the first displayed week starts
\* (dayjs().startOf("isoWeek")), and the minute of that day.
Dayjs(d, m) == [day |-> d, minute |-> m]

\* date.day(): 0 = Sunday, 1 = Monday, ..., 6 = Saturday
DayOf(date) == (date.day + 1) % 7

\* date.format("YYYY-MM-DD"): the calendar day, without the time of day
FormatDate(date) == date.day

\* dayjs(dateStr) of a "YYYY-MM-DD" string: midnight of that day
ParseDate(dateStr) == Dayjs(dateStr, 0)

\* weekDays: currentWeekStart.add(i, "day"), i = 0..6
weekDays == [i \in 1..7 |-> Dayjs(i - 1, 0)]

\* the day-of-week key as each site computes it
\* admin getEventsForDate (part_000:301)
DayKeyAdminLookup(date) == IF DayOf(date) = 0 THEN 8 ELSE DayOf(date) + 1
\* admin getEventsForDateAndSlot (part_000:426)
DayKeyAdminSlotLookup(date) == IF DayOf(date) = 0 THEN 8 ELSE DayOf(date) + 1
\* admin saveScheduleThisDateOnly (part_000:597), from the date string
DayKeyAdminSave(dateStr) ==
  IF DayOf(ParseDate(dateStr)) = 0 THEN 8 ELSE DayOf(ParseDate(dateStr)) + 1
\* admin moveScheduleAllWeeks (part_000:659)
DayKeyAdminMoveAll(targetDate) == IF DayOf(targetDate) = 0 THEN 8 ELSE DayOf(targetDate) + 1
\* admin moveScheduleThisDateOnly (part_000:707)
DayKeyAdminMoveSundayAsOne(targetDate) == DayOf(targetDate) + 1
DayKeyAdminMove(targetDate) == IF DayOf(targetDate) = 0 THEN 8 ELSE DayOf(targetDate) + 1
\* teacher getWeekEvents (part_001:228)
DayKeyTeacherLookup(date) == IF DayOf(date) = 0 THEN 8 ELSE DayOf(date) + 1
\* teacher handleDrop (part_001:414)
DayKeyTeacherDrop(targetDay) == IF DayOf(targetDay) = 0 THEN 8 ELSE DayOf(targetDay) + 1
\* teacher handleSaveSchedule (part_001:482)
DayKeyTeacherSave(ngay) == IF DayOf(ngay) = 0 THEN 8 ELSE DayOf(ngay) + 1

(* ----------------- timetable entries and event lookup ----------------- *)

\* absent optional values: no entry id, no "Thay thế ngày" / "Thay thế thứ"
NoId == 0
NoDate == -1
NoDay == -1
Null == [null |-> TRUE]

\* a record of Thời_khoá_biểu (the fields the calendar logic reads; the
\* class code, class name, room and note are carried along unread)
Entry(id, classId, ngay, thu, start, end, thayTheNgay, thayTheThu) ==
  [id |-> id, classId |-> classId, ngay |-> ngay, thu |-> thu, start |-> start, end |-> end,
   thayTheNgay |-> thayTheNgay, thayTheThu |-> thayTheThu]

\* the key of the map of the subscription: `${Class ID}_${Ngày}_${Thứ}`
EntryKey(entry) == << entry.classId, entry.ngay, entry.thu >>

\* the subscription callback (part_000:145-158, part_001:120-132): the
\* records in the order of their ids, a later record replacing an earlier
\* one under the same key.  The map is the sequence of its values in
\* insertion order of the keys.
RECURSIVE BuildMap(_, _)
BuildMap(data, n) ==
  IF n = 0 THEN << >>
  ELSE LET before == BuildMap(data, n - 1)
           value == data[n]
       IN  IF \E i \in 1..Len(before) : EntryKey(before[i]) = EntryKey(value)
           THEN [i \in 1..Len(before) |->
                   IF EntryKey(before[i]) = EntryKey(value) THEN value ELSE before[i]]
           ELSE Append(before, value)

SnapshotMap(data) == BuildMap(data, Len(data))

\* timetableEntries.get(key), Null when the key is absent
MapGet(entries, key) ==
  IF \E i \in 1..Len(entries) : EntryKey(entries[i]) = key
  THEN entries[CHOOSE i \in 1..Len(entries) : EntryKey(entries[i]) = key]
  ELSE Null

\* variant of isDateReplacedByCustomSchedule that compares the date and day
\* of the record itself
isDateReplacedByOwnDate(entries, classId, dateStr, dayOfWeek) ==
  \E i \in 1..Len(entries) :
     /\ entries[i].classId = classId
     /\ entries[i].ngay = dateStr
     /\ entries[i].thu = dayOfWeek

\* isDateReplacedByCustomSchedule (part_000:163-175, part_001:137-148)
isDateReplacedByCustomSchedule(entries, classId, dateStr, dayOfWeek) ==
  \E i \in 1..Len(entries) :
     /\ entries[i].classId = classId
     /\ entries[i].thayTheNgay = dateStr
     /\ entries[i].thayTheThu = dayOfWeek

\* a session of "Lịch học" and a class record
Session(thu, start, end) == [thu |-> thu, start |-> start, end |-> end]
Class(id, lichHoc) == [id |-> id, lichHoc |-> lichHoc]

\* the events of one class on one date, given the day key and the date
\* string of the lookup (part_000:304-336, part_001:231-279)
ClassEvents(entries, class, dateStr, dayOfWeek) ==
  LET customSchedule == MapGet(entries, << class.id, dateStr, dayOfWeek >>)
  IN  IF customSchedule # Null
      THEN << [class |-> class,
               schedule |-> Session(customSchedule.thu, customSchedule.start, customSchedule.end),
               date |-> dateStr, scheduleId |-> customSchedule.id, isCustomSchedule |-> TRUE] >>
      ELSE IF isDateReplacedByCustomSchedule(entries, class.id, dateStr, dayOfWeek)
      THEN << >>
      ELSE LET Matches(sess) == sess.thu = dayOfWeek
               sessions == SelectSeq(class.lichHoc, Matches)
           IN  [i \in 1..Len(sessions) |->
                  [class |-> class, schedule |-> sessions[i], date |-> dateStr,
                   scheduleId |-> NoId, isCustomSchedule |-> FALSE]]

RECURSIVE ConcatAll(_)
ConcatAll(seqs) ==
  IF seqs = << >> THEN << >> ELSE seqs[1] \o ConcatAll(Tail(seqs))

\* admin getEventsForDate(date) (part_000:299-339)
getEventsForDate(entries, classList, date) ==
  ConcatAll([c \in 1..Len(classList) |->
               ClassEvents(entries, classList[c], FormatDate(date), DayKeyAdminLookup(date))])

\* teacher getWeekEvents: the events collected for one date (part_001:227-280);
\* the event keeps the Dayjs date
TeacherEventsForDate(entries, classList, date) ==
  LET found == ConcatAll([c \in 1..Len(classList) |->
                 ClassEvents(entries, classList[c], FormatDate(date), DayKeyTeacherLookup(date))])
  IN  [i \in 1..Len(found) |-> [found[i] EXCEPT !.date = date]]

(* ------------------------ remote store writes ------------------------- *)

\* remove(ref(database, `datasheet/Thời_khoá_biểu/${id}`))
RemoveEntry(data, id) ==
  LET Keep(entry) == entry.id # id IN SelectSeq(data, Keep)

\* set(ref, value): the record under the id is replaced, or created at the
\* place of the id among the ids
SetEntry(data, value) ==
  LET Before(entry) == entry.id < value.id
      After(entry) == entry.id > value.id
  IN  SelectSeq(data, Before) \o << value >> \o SelectSeq(data, After)

\* update(ref, value): the fields given are written, the other fields of an
\* existing record are kept ("Thay thế ngày" / "Thay thế thứ" are given only
\* when they are set in value)
UpdateEntry(data, value) ==
  IF \E i \in 1..Len(data) : data[i].id = value.id
  THEN [i \in 1..Len(data) |->
          IF data[i].id = value.id
          THEN IF value.thayTheNgay = NoDate
               THEN [value EXCEPT !.thayTheNgay = data[i].thayTheNgay,
                                  !.thayTheThu = data[i].thayTheThu]
               ELSE value
          ELSE data[i]]
  ELSE SetEntry(data, value)

\* update(classRef, { "Lịch học": schedules })
UpdateClass(classList, classId, schedules) ==
  [c \in 1..Len(classList) |->
     IF classList[c].id = classId THEN [classList[c] EXCEPT !.lichHoc = schedules]
     ELSE classList[c]]

\* Array.from(timetableEntries.values()).find(entry => entry.id === id)
FindById(entries, id) ==
  IF \E i \in 1..Len(entries) : entries[i].id = id
  THEN entries[CHOOSE i \in 1..Len(entries) : entries[i].id = id]
  ELSE Null

\* for (const entryId of entriesToDelete) await remove(...): the removals up
\* to the first one that fails (failAt = 0: none fails)
RECURSIVE RemoveUpTo(_, _, _)
RemoveUpTo(data, ids, n) ==
  IF n = 0 THEN data ELSE RemoveEntry(RemoveUpTo(data, ids, n - 1), ids[n].id)

RemoveAll(data, toDelete, failAt) ==
  RemoveUpTo(data, toDelete, IF failAt = 0 THEN Len(toDelete) ELSE failAt - 1)

(* ------------------ admin screen: the write handlers ------------------ *)

\* the result of a handler: the remote timetable and classes, the number of
\* ids pushed, the notification shown, and whether it ran to its end
Outcome(data, classList, ids, msg) ==
  [timetable |-> data, classes |-> classList, pushed |-> ids, message |-> msg]

\* moveScheduleThisDateOnly(event, targetDate) (part_000:704-752)
moveScheduleThisDateOnly(data, classList, ids, entries, event, targetDate, okRemove, okSet) ==
  LET newDateStr == FormatDate(targetDate)
      oldDateStr == event.date
      newDayOfWeek == DayKeyAdminMove(targetDate)
      oldDayOfWeek == event.schedule.thu
      existingEntry == FindById(entries, event.scheduleId)
      keepsOld == event.scheduleId # NoId /\ existingEntry # Null
                    /\ existingEntry.thayTheNgay # NoDate
      thayTheNgay == IF keepsOld THEN existingEntry.thayTheNgay
                     ELSE IF ~event.isCustomSchedule THEN oldDateStr ELSE NoDate
      thayTheThu == IF keepsOld THEN existingEntry.thayTheThu
                    ELSE IF ~event.isCustomSchedule THEN oldDayOfWeek ELSE NoDay
      afterRemove == IF event.scheduleId # NoId THEN RemoveEntry(data, event.scheduleId) ELSE data
      timetableData == Entry(ids + 1, event.class.id, newDateStr, newDayOfWeek,
                             event.schedule.start, event.schedule.end, thayTheNgay, thayTheThu)
  IN  IF event.scheduleId # NoId /\ ~okRemove THEN Outcome(data, classList, ids, "error")
      ELSE IF ~okSet THEN Outcome(afterRemove, classList, ids + 1, "error")
      ELSE Outcome(SetEntry(afterRemove, timetableData), classList, ids + 1, "success")

\* moveScheduleAllWeeks(event, targetDate) (part_000:657-701)
moveScheduleAllWeeks(data, classList, ids, entries, event, targetDate, okUpdate, failAt) ==
  LET newDayOfWeek == DayKeyAdminMoveAll(targetDate)
      oldDayOfWeek == event.schedule.thu
      currentSchedules == event.class.lichHoc
      updatedSchedules ==
        [i \in 1..Len(currentSchedules) |->
           IF /\ currentSchedules[i].thu = oldDayOfWeek
              /\ currentSchedules[i].start = event.schedule.start
              /\ currentSchedules[i].end = event.schedule.end
           THEN [currentSchedules[i] EXCEPT !.thu = newDayOfWeek]
           ELSE currentSchedules[i]]
      ToDelete(entry) == /\ entry.classId = event.class.id
                         /\ (entry.thu = oldDayOfWeek \/ entry.thayTheThu = oldDayOfWeek)
      entriesToDelete == SelectSeq(entries, ToDelete)
      updated == UpdateClass(classList, event.class.id, updatedSchedules)
  IN  IF ~okUpdate THEN Outcome(data, classList, ids, "error")
      ELSE Outcome(RemoveAll(data, entriesToDelete, failAt), updated, ids,
                   IF failAt = 0 \/ failAt > Len(entriesToDelete) THEN "success" ELSE "error")

\* the values of the edit form: start and end as minutes of the day
FormValues(startMinute, endMinute) == [start |-> startMinute, end |-> endMinute]

\* the records of the weekday are deleted whatever their class
SameDayAnyClass(entry, classId, dayOfWeek) == entry.thu = dayOfWeek

\* entry["Class ID"] === event.class.id && entry["Thứ"] === dayOfWeek
\* (part_000:572)
SameClassAndDay(entry, classId, dayOfWeek) ==
  entry.classId = classId /\ entry.thu = dayOfWeek

\* saveScheduleAllWeeks(event, values) (part_000:542-591)
saveScheduleAllWeeks(data, classList, ids, entries, event, values, okUpdate, failAt) ==
  LET currentSchedules == event.class.lichHoc
      dayOfWeek == event.schedule.thu
      updatedSchedules ==
        [i \in 1..Len(currentSchedules) |->
           IF /\ currentSchedules[i].thu = dayOfWeek
              /\ currentSchedules[i].start = event.schedule.start
              /\ currentSchedules[i].end = event.schedule.end
           THEN Session(dayOfWeek, FormatHHmm(values.start), FormatHHmm(values.end))
           ELSE currentSchedules[i]]
      ToDelete(entry) == SameClassAndDay(entry, event.class.id, dayOfWeek)
      entriesToDelete == SelectSeq(entries, ToDelete)
      updated == UpdateClass(classList, event.class.id, updatedSchedules)
  IN  IF ~okUpdate THEN Outcome(data, classList, ids, "error")
      ELSE Outcome(RemoveAll(data, entriesToDelete, failAt), updated, ids,
                   IF failAt = 0 \/ failAt > Len(entriesToDelete) THEN "success" ELSE "error")

\* saveScheduleThisDateOnly(event, values) (part_000:594-631)
saveScheduleThisDateOnly(data, classList, ids, event, values, okSet) ==
  LET dateStr == event.date
      dayOfWeek == DayKeyAdminSave(dateStr)
      id == IF event.scheduleId # NoId THEN event.scheduleId ELSE ids + 1
      timetableData == Entry(id, event.class.id, dateStr, dayOfWeek,
                             FormatHHmm(values.start), FormatHHmm(values.end), NoDate, NoDay)
      idsAfter == IF event.scheduleId # NoId THEN ids ELSE ids + 1
  IN  IF ~okSet THEN Outcome(data, classList, idsAfter, "error")
      ELSE Outcome(SetEntry(data, timetableData), classList, idsAfter, "success")

\* a delete that reports success whether or not the removal went through
handleDeleteScheduleSuccessAlways(data, classList, ids, event, okRemove) ==
  IF okRemove THEN Outcome(RemoveEntry(data, event.scheduleId), classList, ids, "success")
  ELSE Outcome(data, classList, ids, "success")

\* the remote write of handleDeleteSchedule for an event with scheduleId
\* (part_000:759-773, part_001:544-560)
handleDeleteSchedule(data, classList, ids, event, okRemove) ==
  IF okRemove THEN Outcome(RemoveEntry(data, event.scheduleId), classList, ids, "success")
  ELSE Outcome(data, classList, ids, "error")

(* ----------------- teacher screen: the write handlers ----------------- *)

\* the remote writes of handleDrop(e, targetDay) for a drop on another date
\* (part_001:414-459)
TeacherDropWrites(data, classList, ids, entries, draggingEv, targetDay, okRemove, okSet) ==
  LET newDateStr == FormatDate(targetDay)
      oldDateStr == FormatDate(draggingEv.date)
      newDayOfWeek == DayKeyTeacherDrop(targetDay)
      oldDayOfWeek == draggingEv.schedule.thu
      existingEntry == FindById(entries, draggingEv.scheduleId)
      keepsOld == draggingEv.scheduleId # NoId /\ existingEntry # Null
                    /\ existingEntry.thayTheNgay # NoDate
      thayTheNgay == IF keepsOld THEN existingEntry.thayTheNgay
                     ELSE IF ~draggingEv.isCustomSchedule THEN oldDateStr ELSE NoDate
      thayTheThu == IF keepsOld THEN existingEntry.thayTheThu
                    ELSE IF ~draggingEv.isCustomSchedule THEN oldDayOfWeek ELSE NoDay
      afterRemove == IF draggingEv.scheduleId # NoId
                     THEN RemoveEntry(data, draggingEv.scheduleId) ELSE data
      timetableData == Entry(ids + 1, draggingEv.class.id, newDateStr, newDayOfWeek,
                             draggingEv.schedule.start, draggingEv.schedule.end,
                             thayTheNgay, thayTheThu)
  IN  IF draggingEv.scheduleId # NoId /\ ~okRemove THEN Outcome(data, classList, ids, "error")
      ELSE IF ~okSet THEN Outcome(afterRemove, classList, ids + 1, "error")
      ELSE Outcome(SetEntry(afterRemove, timetableData), classList, ids + 1, "success")

\* the values of the teacher edit form: the date and the two times
TeacherFormValues(ngay, startMinute, endMinute) ==
  [ngay |-> ngay, start |-> startMinute, end |-> endMinute]

\* the remote writes of handleSaveSchedule (part_001:479-541)
TeacherSaveWrites(data, classList, ids, entries, editingEv, values, okRemove, okSet) ==
  LET newDateStr == FormatDate(values.ngay)
      newDayOfWeek == DayKeyTeacherSave(values.ngay)
      oldDateStr == FormatDate(editingEv.date)
      oldDayOfWeek == editingEv.schedule.thu
      replaces == newDateStr # oldDateStr /\ ~editingEv.isCustomSchedule
      existingEntry == FindById(entries, editingEv.scheduleId)
      keepsOld == editingEv.scheduleId # NoId /\ newDateStr # oldDateStr
                    /\ existingEntry # Null /\ existingEntry.thayTheNgay # NoDate
      thayTheNgay == IF keepsOld THEN existingEntry.thayTheNgay
                     ELSE IF replaces THEN oldDateStr ELSE NoDate
      thayTheThu == IF keepsOld THEN existingEntry.thayTheThu
                    ELSE IF replaces THEN oldDayOfWeek ELSE NoDay
      DataWithId(id) == Entry(id, editingEv.class.id, newDateStr, newDayOfWeek,
                              FormatHHmm(values.start), FormatHHmm(values.end),
                              thayTheNgay, thayTheThu)
      afterRemove == RemoveEntry(data, editingEv.scheduleId)
  IN  IF editingEv.scheduleId # NoId /\ newDateStr = oldDateStr
      THEN IF okSet
           THEN Outcome(UpdateEntry(data, DataWithId(editingEv.scheduleId)), classList, ids, "success")
           ELSE Outcome(data, classList, ids, "error")
      ELSE IF editingEv.scheduleId # NoId
      THEN IF ~okRemove THEN Outcome(data, classList, ids, "error")
           ELSE IF ~okSet THEN Outcome(afterRemove, classList, ids + 1, "error")
           ELSE Outcome(SetEntry(afterRemove, DataWithId(ids + 1)), classList, ids + 1, "success")
      ELSE IF ~okSet THEN Outcome(data, classList, ids + 1, "error")
      ELSE Outcome(SetEntry(data, DataWithId(ids + 1)), classList, ids + 1, "success")

(* ---------------- attendance page: the check-in handler --------------- *)

\* a record of datasheet/Điểm_danh_nhân_sự: "Ngày" is a day number, -1 a day
\* of the month before; "Giờ vào" is Undefined before the check-in
AttendanceSession(id, staffId, ngay, gioVao) ==
  [id |-> id, staffId |-> staffId, ngay |-> ngay, gioVao |-> gioVao]

\* staffMembers, and a staff member picked before leaving the list
staffMembers == { 1, 2 }
FormerStaff == 3

\* dayjs(): the day and the minute of the check-in
Now == Dayjs(0, FormMinute)

\* the sessions of the selected month (StaffAttendance.tsx:113-126)
monthAttendance(sessions) ==
  LET InMonth(session) == session.ngay >= 0 IN SelectSeq(sessions, InMonth)

\* push(): a key that no record has
NewSessionId(data) == Max({ 0 } \cup { data[i].id : i \in 1..Len(data) }) + 1

\* update(sessionRef, { "Giờ vào": checkInTime, ... }): the fields given are
\* written, to a record of its own when the id is gone from the store
UpdateSession(data, id, gioVao) ==
  IF \E i \in 1..Len(data) : data[i].id = id
  THEN [i \in 1..Len(data) |-> IF data[i].id = id THEN [data[i] EXCEPT !.gioVao = gioVao]
                                                ELSE data[i]]
  ELSE LET Before(session) == session.id < id
           After(session) == session.id > id
       IN  SelectSeq(data, Before) \o << AttendanceSession(id, NoId, NoDate, gioVao) >>
             \o SelectSeq(data, After)

\* the result of handleCheckIn: the remote sessions, the notification, the
\* selection, and whether a remote write was issued
CheckedIn(data, msg, selected, wrote) ==
  [attendance |-> data, message |-> msg, selected |-> selected, wrote |-> wrote]

\* handleCheckIn (StaffAttendance.tsx:171-229)
handleCheckIn(data, sessions, staffId, okWrite) ==
  LET dateStr == FormatDate(Now)
      checkInTime == FormatHHmm(Now.minute)
      Today(session) == session.ngay = dateStr
      todayAttendance == SelectSeq(monthAttendance(sessions), Today)
      OfStaff(session) == session.staffId = staffId
      found == SelectSeq(todayAttendance, OfStaff)
      existingSession == found[1]
  IN  IF staffId = NoId THEN CheckedIn(data, "warning", staffId, FALSE)
      ELSE IF staffId \notin staffMembers THEN CheckedIn(data, "error", staffId, FALSE)
      ELSE IF found # << >>
      THEN IF existingSession.gioVao # Undefined
           THEN CheckedIn(data, "warning", staffId, FALSE)
           ELSE IF okWrite
           THEN CheckedIn(UpdateSession(data, existingSession.id, checkInTime),
                          "success", NoId, TRUE)
           ELSE CheckedIn(data, "error", staffId, TRUE)
      ELSE IF okWrite
      THEN CheckedIn(data \o << AttendanceSession(NewSessionId(data), staffId, dateStr,
                                                  checkInTime) >>,
                     "success", NoId, TRUE)
      ELSE CheckedIn(data, "error", staffId, TRUE)

(* --------------------------- state machine ---------------------------- *)

VARIABLES
  events,            \* the events of the day being rendered (dayEvents)
  adminStatus,       \* "idle", "ok" or "threw": the admin render of the day
  positionedEvents,  \* admin: result of groupOverlappingEvents
  adminBoxes,        \* admin: the rendered boxes
  teacherStatus,     \* "idle", "ok" or "threw": the teacher render of the day
  weekEvents,        \* teacher: result of getWeekEvents
  teacherBoxes,      \* teacher: the rendered boxes
  screen,            \* the mounted component: "admin" or "teacher"
  storeTimetable,    \* remote datasheet/Thời_khoá_biểu, in the order of the ids
  storeClasses,      \* remote datasheet/Lớp_học
  pushed,            \* number of ids generated by push()
  writes,            \* number of handler runs that wrote to the remote store
  classes,           \* useClasses(): the classes as last delivered
  timetableEntries,  \* the map of the timetable subscription
  draggingEvent,
  editingEvent,
  isEditModalOpen,
  pendingAction,     \* admin only
  confirmedAction,   \* admin only: the handleConfirmAction call awaiting its writes
  confirmModalType,  \* admin only
  confirmModalVisible, \* admin only
  message,           \* the last notification: "none", "success", "error", "warning"
  storeAttendance,   \* remote datasheet/Điểm_danh_nhân_sự, in the order of the ids
  attendanceSessions, \* attendance page: the sessions as last delivered
  selectedStaffId    \* attendance page: the staff member picked for the check-in

layoutVars == << events, adminStatus, positionedEvents, adminBoxes,
                 teacherStatus, weekEvents, teacherBoxes >>

remoteVars == << storeTimetable, storeClasses, pushed, writes >>

uiVars == << draggingEvent, editingEvent, isEditModalOpen, pendingAction,
             confirmedAction, confirmModalType, confirmModalVisible, message >>

attendanceVars == << storeAttendance, attendanceSessions, selectedStaffId >>

storeVars == << screen, remoteVars, classes, timetableEntries, uiVars, attendanceVars >>

vars == << layoutVars, storeVars >>

(* ---- rendering one day: the specification of the layout functions ---- *)

\* no day is being laid out
LayoutIdle ==
  /\ events = << >>
  /\ adminStatus = "idle"
  /\ positionedEvents = << >>
  /\ adminBoxes = << >>
  /\ teacherStatus = "idle"
  /\ weekEvents = << >>
  /\ teacherBoxes = << >>

\* the component as mounted, on an empty timetable
Mounted(scr) ==
  /\ screen = scr
  /\ timetableEntries = << >>
  /\ draggingEvent = Null
  /\ editingEvent = Null
  /\ isEditModalOpen = FALSE
  /\ pendingAction = Null
  /\ confirmedAction = Null
  /\ confirmModalType = "edit"
  /\ confirmModalVisible = FALSE
  /\ message = "none"

\* the attendance page is not in use
AttendanceIdle ==
  /\ storeAttendance = << >>
  /\ attendanceSessions = << >>
  /\ selectedStaffId = NoId

StoreIdle ==
  /\ Mounted("admin")
  /\ AttendanceIdle
  /\ storeTimetable = << >>
  /\ storeClasses = << >>
  /\ pushed = 0
  /\ writes = 0
  /\ classes = << >>

Init ==
  /\ events \in Days
  /\ adminStatus = "idle"
  /\ positionedEvents = << >>
  /\ adminBoxes = << >>
  /\ teacherStatus = "idle"
  /\ weekEvents = << >>
  /\ teacherBoxes = << >>
  /\ StoreIdle

\* the admin screen renders the column of the day (lines 1022-1024, 1136)
AdminRender ==
  /\ adminStatus = "idle"
  /\ \E outcome \in SortOutcomes(events) :
       /\ adminStatus' = outcome
       /\ positionedEvents' = IF outcome = "ok" THEN groupOverlappingEvents(events) ELSE << >>
       /\ adminBoxes' = [i \in 1..Len(positionedEvents') |-> AdminBox(positionedEvents'[i])]
       /\ events' = IF outcome = "ok" THEN SpreadSort(events).events ELSE events
  /\ UNCHANGED << teacherStatus, weekEvents, teacherBoxes, storeVars >>

\* the teacher screen renders the column of the day (lines 328, 769, 836)
TeacherRender ==
  /\ teacherStatus = "idle"
  /\ teacherStatus' = WeekEventsOutcome(events)
  /\ weekEvents' = IF WeekEventsOutcome(events) = "ok" THEN getWeekEvents(events) ELSE << >>
  /\ teacherBoxes' = [i \in 1..Len(weekEvents') |-> TeacherBox(weekEvents'[i])]
  /\ UNCHANGED << events, adminStatus, positionedEvents, adminBoxes, storeVars >>

Next == AdminRender \/ TeacherRender

Spec == Init /\ [][Next]_vars

(* ------- the calendar screens on the remote store: StoreSpec ---------- *)

\* the class records of the remote store when the screen is mounted: one
\* class with a weekly session on Monday (2), or with a second one, later in
\* the day, on Sunday (8)
MondaySession == Session(2, TimeStr(0), TimeStr(2))
SundaySession == Session(8, TimeStr(1), TimeStr(3))
InitialClasses ==
  { << Class(1, << MondaySession >>) >>,
    << Class(1, << MondaySession, SundaySession >>) >> }

\* the values a user enters in the edit forms
FormChoices == { FormValues(FormMinute, FormMinute + SlotMinutes) }
PickerDates == { Dayjs(d, m) : d \in 0..(NumDates - 1), m \in { 0, FormMinute } }
TeacherFormChoices ==
  { TeacherFormValues(ngay, FormMinute, FormMinute + SlotMinutes) : ngay \in PickerDates }

Range(seq) == { seq[i] : i \in 1..Len(seq) }

\* the events on display in the week (part_000:1022-1023, part_001:768-771)
DisplayedAdmin ==
  UNION { Range(getEventsForDate(timetableEntries, classes, weekDays[i])) : i \in 1..7 }
DisplayedTeacher ==
  UNION { Range(TeacherEventsForDate(timetableEntries, classes, weekDays[i])) : i \in 1..7 }

NoModal == ~isEditModalOpen /\ ~confirmModalVisible

\* a timetable record of a class that is not among the classes of the screen
\* (an inactive class, a class of another teacher), on the Sunday
OtherClassRecord ==
  Entry(1, 2, FormatDate(weekDays[7]), 8, TimeStr(0), TimeStr(2), NoDate, NoDay)

\* the remote store when the screen is mounted: the class records alone, or
\* with the record of another class and the record left by an earlier move
\* of the Monday session of the first week to the Wednesday, for that date
\* only
EarlierMove(classList) ==
  moveScheduleThisDateOnly(<< OtherClassRecord >>, classList, 1, << >>,
                           getEventsForDate(<< >>, classList, weekDays[1])[1],
                           weekDays[3], TRUE, TRUE)
InitialStores ==
  UNION { { Outcome(<< >>, classList, 0, "none"), EarlierMove(classList) } :
            classList \in InitialClasses }

StoreInit ==
  /\ LayoutIdle
  /\ AttendanceIdle
  /\ \E scr \in { "admin", "teacher" } : Mounted(scr)
  /\ \E store \in InitialStores :
       /\ storeTimetable = store.timetable
       /\ storeClasses = store.classes
       /\ pushed = store.pushed
  /\ writes = 0
  /\ classes = << >>

\* a handler run wrote to the remote store with this outcome
Written(outcome) ==
  /\ storeTimetable' = outcome.timetable
  /\ storeClasses' = outcome.classes
  /\ pushed' = outcome.pushed
  /\ writes' = writes + 1
  /\ message' = outcome.message

\* onValue of datasheet/Thời_khoá_biểu (part_000:143-160, part_001:118-134)
TimetableSnapshot ==
  /\ timetableEntries # SnapshotMap(storeTimetable)
  /\ timetableEntries' = SnapshotMap(storeTimetable)
  /\ UNCHANGED << layoutVars, attendanceVars, screen, remoteVars, classes, uiVars >>

\* useClasses() delivers the class records (part_000:83, part_001:75)
ClassesSnapshot ==
  /\ classes # storeClasses
  /\ classes' = storeClasses
  /\ UNCHANGED << layoutVars, attendanceVars, screen, remoteVars, timetableEntries, uiVars >>

\* the user opens the other screen: the component is mounted anew
Navigate ==
  /\ screen \in { "admin", "teacher" }
  /\ confirmedAction = Null
  /\ screen' = IF screen = "admin" THEN "teacher" ELSE "admin"
  /\ timetableEntries' = << >>
  /\ classes' = << >>
  /\ draggingEvent' = Null
  /\ editingEvent' = Null
  /\ isEditModalOpen' = FALSE
  /\ pendingAction' = Null
  /\ confirmedAction' = Null
  /\ confirmModalType' = "edit"
  /\ confirmModalVisible' = FALSE
  /\ message' = "none"
  /\ UNCHANGED << layoutVars, attendanceVars, remoteVars >>

\* admin handleDragStart (part_000:776-790)
AdminDragStart ==
  /\ screen = "admin" /\ NoModal /\ draggingEvent = Null
  /\ writes < MaxWrites
  /\ \E event \in DisplayedAdmin : draggingEvent' = event
  /\ UNCHANGED << layoutVars, attendanceVars, screen, remoteVars, classes, timetableEntries, editingEvent,
                  isEditModalOpen, pendingAction, confirmedAction,
                  confirmModalType, confirmModalVisible, message >>

\* admin handleDragEnd (part_000:792-798)
AdminDragEnd ==
  /\ screen = "admin" /\ draggingEvent # Null
  /\ draggingEvent' = Null
  /\ UNCHANGED << layoutVars, attendanceVars, screen, remoteVars, classes, timetableEntries, editingEvent,
                  isEditModalOpen, pendingAction, confirmedAction,
                  confirmModalType, confirmModalVisible, message >>

\* every event is written directly, without the confirm modal
IsCustomWithIdAlways(event) == TRUE

\* event.isCustomSchedule && event.scheduleId (part_000:526, 826)
IsCustomWithId(event) == event.isCustomSchedule /\ event.scheduleId # NoId

\* a drop that never takes the target for the event's own date
DroppedOnOtherDateAlways(newDateStr, oldDateStr) == FALSE

\* if (newDateStr === oldDateStr) (part_000:820)
DroppedOnOwnDate(newDateStr, oldDateStr) == newDateStr = oldDateStr

\* admin handleDrop(e, targetDate) (part_000:810-837)
AdminDropOn(targetDate) ==
  LET newDateStr == FormatDate(targetDate)
      oldDateStr == draggingEvent.date
  IN  /\ screen = "admin"
      /\ \/ /\ draggingEvent = Null
            /\ UNCHANGED << remoteVars, uiVars >>
         \/ /\ draggingEvent # Null
            /\ DroppedOnOwnDate(newDateStr, oldDateStr)
            /\ draggingEvent' = Null
            /\ UNCHANGED << remoteVars, pendingAction, confirmedAction,
                  confirmModalType,
                            confirmModalVisible, message >>
         \/ /\ draggingEvent # Null
            /\ ~DroppedOnOwnDate(newDateStr, oldDateStr)
            /\ IsCustomWithId(draggingEvent)
            /\ writes < MaxWrites
            /\ \E okRemove, okSet \in BOOLEAN :
                 Written(moveScheduleThisDateOnly(storeTimetable, storeClasses, pushed,
                            timetableEntries, draggingEvent, targetDate, okRemove, okSet))
            /\ draggingEvent' = Null
            /\ UNCHANGED << pendingAction, confirmedAction,
                  confirmModalType, confirmModalVisible >>
         \/ /\ draggingEvent # Null
            /\ ~DroppedOnOwnDate(newDateStr, oldDateStr)
            /\ ~IsCustomWithId(draggingEvent)
            /\ pendingAction' = [event |-> draggingEvent, targetDate |-> targetDate,
                                 newValues |-> Null]
            /\ confirmModalType' = "drag"
            /\ confirmModalVisible' = TRUE
            /\ draggingEvent' = Null
            /\ UNCHANGED << remoteVars, message, confirmedAction >>
      /\ UNCHANGED << layoutVars, attendanceVars, screen, classes, timetableEntries, editingEvent,
                      isEditModalOpen >>

\* a drop on one of the seven day columns of the week on display
AdminDrop == \E i \in 1..7 : AdminDropOn(weekDays[i])

\* the handler awaited by handleConfirmAction(updateAll) for the pending
\* action (part_000:639-651), reading the map of the render of the click
ConfirmedOutcome(pending, type, updateAll, entries, ok1, ok2) ==
  IF type = "edit"
  THEN IF updateAll
       THEN saveScheduleAllWeeks(storeTimetable, storeClasses, pushed, entries,
              pending.event, pending.newValues, ok1, IF ok2 THEN 0 ELSE 1)
       ELSE saveScheduleThisDateOnly(storeTimetable, storeClasses, pushed,
              pending.event, pending.newValues, ok2)
  ELSE IF updateAll
       THEN moveScheduleAllWeeks(storeTimetable, storeClasses, pushed, entries,
              pending.event, pending.targetDate, ok1, IF ok2 THEN 0 ELSE 1)
       ELSE moveScheduleThisDateOnly(storeTimetable, storeClasses, pushed, entries,
              pending.event, pending.targetDate, ok1, ok2)

\* the end of the awaited handler: the notification, and the edit modal
\* closed by a successful save (part_000:583-586, 623-626)
ConfirmedWritten(outcome, type) ==
  /\ Written(outcome)
  /\ isEditModalOpen' = IF type = "edit" /\ outcome.message = "success" THEN FALSE
                        ELSE isEditModalOpen
  /\ editingEvent' = IF type = "edit" /\ outcome.message = "success" THEN Null
                     ELSE editingEvent

\* admin handleConfirmAction(updateAll) (part_000:634-654), with the
\* handlers it awaits, when the writes land before the next user action
AdminConfirmAction ==
  /\ screen = "admin" /\ confirmModalVisible
  /\ confirmModalVisible' = FALSE
  /\ IF pendingAction = Null
     THEN UNCHANGED << remoteVars, editingEvent, isEditModalOpen, pendingAction, message >>
     ELSE /\ writes < MaxWrites
          /\ pendingAction' = Null
          /\ confirmModalType = "drag" => pendingAction.targetDate # Null
          /\ \E updateAll, ok1, ok2 \in BOOLEAN :
               ConfirmedWritten(ConfirmedOutcome(pendingAction, confirmModalType, updateAll,
                                                 timetableEntries, ok1, ok2),
                                confirmModalType)
  /\ UNCHANGED << layoutVars, attendanceVars, screen, classes, timetableEntries, draggingEvent, confirmModalType,
                  confirmedAction >>

\* handleConfirmAction(updateAll) up to its await (part_000:634-650): the
\* modal is hidden and the handler for the pending action is called
AdminConfirmPick ==
  /\ screen = "admin" /\ confirmModalVisible
  /\ confirmModalVisible' = FALSE
  /\ IF pendingAction = Null
     THEN UNCHANGED confirmedAction
     ELSE /\ confirmedAction = Null
          /\ writes < MaxWrites
          /\ confirmModalType = "drag" => pendingAction.targetDate # Null
          /\ \E updateAll \in BOOLEAN :
               confirmedAction' = [pending |-> pendingAction, type |-> confirmModalType,
                                   updateAll |-> updateAll, entries |-> timetableEntries]
  /\ UNCHANGED << layoutVars, attendanceVars, screen, remoteVars, classes, timetableEntries, draggingEvent,
                  editingEvent, isEditModalOpen, pendingAction, confirmModalType, message >>

\* handleConfirmAction after its await (part_000:653): the writes of the
\* handler have landed or failed, then setPendingAction(null)
AdminConfirmSettled ==
  /\ screen = "admin" /\ confirmedAction # Null
  /\ writes < MaxWrites
  /\ \E ok1, ok2 \in BOOLEAN :
       ConfirmedWritten(ConfirmedOutcome(confirmedAction.pending, confirmedAction.type,
                                         confirmedAction.updateAll, confirmedAction.entries,
                                         ok1, ok2),
                        confirmedAction.type)
  /\ pendingAction' = Null
  /\ confirmedAction' = Null
  /\ UNCHANGED << layoutVars, attendanceVars, screen, classes, timetableEntries, draggingEvent,
                  confirmModalType, confirmModalVisible >>

\* the confirm modal's onCancel (part_000:1257-1260)
AdminConfirmCancel ==
  /\ screen = "admin" /\ confirmModalVisible
  /\ confirmModalVisible' = FALSE
  /\ pendingAction' = Null
  /\ UNCHANGED << layoutVars, attendanceVars, screen, remoteVars, classes, timetableEntries, draggingEvent,
                  editingEvent, isEditModalOpen, confirmModalType, message, confirmedAction >>

\* admin handleEditSchedule(event, e) (part_000:507-517)
AdminEditSchedule ==
  /\ screen = "admin" /\ NoModal /\ draggingEvent = Null
  /\ writes < MaxWrites
  /\ \E event \in DisplayedAdmin : editingEvent' = event
  /\ isEditModalOpen' = TRUE
  /\ UNCHANGED << layoutVars, attendanceVars, screen, remoteVars, classes, timetableEntries, draggingEvent,
                  pendingAction, confirmedAction,
                  confirmModalType, confirmModalVisible, message >>

\* the edit modal's onCancel and its cancel button (part_000:1331-1349)
AdminEditCancel ==
  /\ screen = "admin" /\ isEditModalOpen /\ ~confirmModalVisible
  /\ isEditModalOpen' = FALSE
  /\ editingEvent' = Null
  /\ UNCHANGED << layoutVars, attendanceVars, screen, remoteVars, classes, timetableEntries, draggingEvent,
                  pendingAction, confirmedAction,
                  confirmModalType, confirmModalVisible, message >>

\* admin handleSaveScheduleClick (part_000:520-539), the save button
AdminSaveScheduleClick ==
  /\ screen = "admin" /\ isEditModalOpen /\ ~confirmModalVisible
  /\ editingEvent # Null
  /\ \E values \in FormChoices :
       \/ /\ IsCustomWithId(editingEvent)
          /\ writes < MaxWrites
          /\ \E okSet \in BOOLEAN :
               LET outcome == saveScheduleThisDateOnly(storeTimetable, storeClasses, pushed,
                                editingEvent, values, okSet)
               IN  /\ Written(outcome)
                   /\ isEditModalOpen' = IF outcome.message = "success" THEN FALSE
                                         ELSE isEditModalOpen
                   /\ editingEvent' = IF outcome.message = "success" THEN Null ELSE editingEvent
          /\ UNCHANGED << pendingAction, confirmedAction,
                  confirmModalType, confirmModalVisible >>
       \/ /\ ~IsCustomWithId(editingEvent)
          /\ pendingAction' = [event |-> editingEvent, targetDate |-> Null, newValues |-> values]
          /\ confirmModalType' = "edit"
          /\ confirmModalVisible' = TRUE
          /\ UNCHANGED << remoteVars, editingEvent, isEditModalOpen, message, confirmedAction >>
  /\ UNCHANGED << layoutVars, attendanceVars, screen, classes, timetableEntries, draggingEvent >>

\* handleDeleteSchedule of either screen, the delete button of an event with
\* scheduleId (part_000:759-773, part_001:544-562)
DeleteSchedule ==
  /\ screen \in { "admin", "teacher" }
  /\ isEditModalOpen /\ ~confirmModalVisible
  /\ editingEvent # Null /\ editingEvent.scheduleId # NoId
  /\ writes < MaxWrites
  /\ \E okRemove \in BOOLEAN :
       LET outcome == handleDeleteSchedule(storeTimetable, storeClasses, pushed,
                                           editingEvent, okRemove)
       IN  /\ Written(outcome)
           /\ isEditModalOpen' = IF outcome.message = "success" THEN FALSE ELSE isEditModalOpen
           /\ editingEvent' = IF outcome.message = "success" THEN Null ELSE editingEvent
  /\ UNCHANGED << layoutVars, attendanceVars, screen, classes, timetableEntries, draggingEvent,
                  pendingAction, confirmedAction,
                  confirmModalType, confirmModalVisible >>

\* teacher handleDragStart (part_001:374-380)
TeacherDragStart ==
  /\ screen = "teacher" /\ NoModal /\ draggingEvent = Null
  /\ writes < MaxWrites
  /\ \E event \in DisplayedTeacher : draggingEvent' = event
  /\ UNCHANGED << layoutVars, attendanceVars, screen, remoteVars, classes, timetableEntries, editingEvent,
                  isEditModalOpen, pendingAction, confirmedAction,
                  confirmModalType, confirmModalVisible, message >>

\* teacher handleDragEnd (part_001:382-388)
TeacherDragEnd ==
  /\ screen = "teacher" /\ draggingEvent # Null
  /\ draggingEvent' = Null
  /\ UNCHANGED << layoutVars, attendanceVars, screen, remoteVars, classes, timetableEntries, editingEvent,
                  isEditModalOpen, pendingAction, confirmedAction,
                  confirmModalType, confirmModalVisible, message >>

\* teacher handleDrop(e, targetDay) (part_001:400-462)
TeacherDropOn(targetDay) ==
  /\ screen = "teacher"
  /\ \/ /\ draggingEvent = Null
        /\ UNCHANGED << remoteVars, message, draggingEvent >>
     \/ /\ draggingEvent # Null
        /\ FormatDate(targetDay) = FormatDate(draggingEvent.date)
        /\ draggingEvent' = Null
        /\ UNCHANGED << remoteVars, message >>
     \/ /\ draggingEvent # Null
        /\ FormatDate(targetDay) # FormatDate(draggingEvent.date)
        /\ writes < MaxWrites
        /\ \E okRemove, okSet \in BOOLEAN :
             Written(TeacherDropWrites(storeTimetable, storeClasses, pushed,
                        timetableEntries, draggingEvent, targetDay, okRemove, okSet))
        /\ draggingEvent' = Null
  /\ UNCHANGED << layoutVars, attendanceVars, screen, classes, timetableEntries, editingEvent,
                  isEditModalOpen, pendingAction, confirmedAction,
                  confirmModalType, confirmModalVisible >>

\* a drop on one of the seven day columns of the week on display
TeacherDrop == \E i \in 1..7 : TeacherDropOn(weekDays[i])

\* teacher handleEditSchedule(event, e) (part_001:465-474)
TeacherEditSchedule ==
  /\ screen = "teacher" /\ NoModal /\ draggingEvent = Null
  /\ writes < MaxWrites
  /\ \E event \in DisplayedTeacher : editingEvent' = event
  /\ isEditModalOpen' = TRUE
  /\ UNCHANGED << layoutVars, attendanceVars, screen, remoteVars, classes, timetableEntries, draggingEvent,
                  pendingAction, confirmedAction,
                  confirmModalType, confirmModalVisible, message >>

\* the teacher edit modal's onCancel and cancel button (part_001:987-1001)
TeacherEditCancel ==
  /\ screen = "teacher" /\ isEditModalOpen
  /\ isEditModalOpen' = FALSE
  /\ editingEvent' = Null
  /\ UNCHANGED << layoutVars, attendanceVars, screen, remoteVars, classes, timetableEntries, draggingEvent,
                  pendingAction, confirmedAction,
                  confirmModalType, confirmModalVisible, message >>

\* teacher handleSaveSchedule (part_001:476-542)
TeacherSaveSchedule ==
  /\ screen = "teacher" /\ isEditModalOpen
  /\ editingEvent # Null
  /\ writes < MaxWrites
  /\ \E values \in TeacherFormChoices : \E okRemove, okSet \in BOOLEAN :
       LET outcome == TeacherSaveWrites(storeTimetable, storeClasses, pushed, timetableEntries,
                                        editingEvent, values, okRemove, okSet)
       IN  /\ Written(outcome)
           /\ isEditModalOpen' = IF outcome.message = "success" THEN FALSE ELSE isEditModalOpen
           /\ editingEvent' = IF outcome.message = "success" THEN Null ELSE editingEvent
  /\ UNCHANGED << layoutVars, attendanceVars, screen, classes, timetableEntries, draggingEvent,
                  pendingAction, confirmedAction,
                  confirmModalType, confirmModalVisible >>

StoreNext ==
  \/ TimetableSnapshot
  \/ ClassesSnapshot
  \/ Navigate
  \/ AdminDragStart
  \/ AdminDragEnd
  \/ AdminDrop
  \/ AdminConfirmAction
  \/ AdminConfirmCancel
  \/ AdminEditSchedule
  \/ AdminEditCancel
  \/ AdminSaveScheduleClick
  \/ DeleteSchedule
  \/ TeacherDragStart
  \/ TeacherDragEnd
  \/ TeacherDrop
  \/ TeacherEditSchedule
  \/ TeacherEditCancel
  \/ TeacherSaveSchedule

StoreSpec == StoreInit /\ [][StoreNext]_vars

(* ------------- the attendance page on the remote store ---------------- *)

\* the sessions of the remote store when the page is mounted: none, a
\* session of today without a check-in, or a checked-in session of the
\* month before
InitialAttendance ==
  { << >>,
    << AttendanceSession(1, 1, FormatDate(Now), Undefined) >>,
    << AttendanceSession(1, 2, -1, FormatHHmm(FormMinute)) >> }

AttendanceInit ==
  /\ LayoutIdle
  /\ Mounted("attendance")
  /\ storeTimetable = << >>
  /\ storeClasses = << >>
  /\ pushed = 0
  /\ writes = 0
  /\ classes = << >>
  /\ storeAttendance \in InitialAttendance
  /\ attendanceSessions = << >>
  /\ selectedStaffId = NoId

\* onValue of datasheet/Điểm_danh_nhân_sự (StaffAttendance.tsx:96-111)
AttendanceSnapshot ==
  /\ screen = "attendance"
  /\ attendanceSessions # storeAttendance
  /\ attendanceSessions' = storeAttendance
  /\ UNCHANGED << layoutVars, screen, remoteVars, classes, timetableEntries, uiVars,
                  storeAttendance, selectedStaffId >>

\* the Select of the staff member (StaffAttendance.tsx:438)
SelectStaff ==
  /\ screen = "attendance"
  /\ \E staffId \in staffMembers \cup { FormerStaff } :
       /\ staffId # selectedStaffId
       /\ selectedStaffId' = staffId
  /\ UNCHANGED << layoutVars, screen, remoteVars, classes, timetableEntries, uiVars,
                  storeAttendance, attendanceSessions >>

\* the check-in button (StaffAttendance.tsx:461-462) with handleCheckIn
CheckIn ==
  /\ screen = "attendance"
  /\ selectedStaffId # NoId
  /\ writes < MaxWrites
  /\ \E okWrite \in BOOLEAN :
       LET outcome == handleCheckIn(storeAttendance, attendanceSessions, selectedStaffId,
                                    okWrite)
       IN  /\ storeAttendance' = outcome.attendance
           /\ message' = outcome.message
           /\ selectedStaffId' = outcome.selected
           /\ writes' = IF outcome.wrote THEN writes + 1 ELSE writes
  /\ UNCHANGED << layoutVars, screen, storeTimetable, storeClasses, pushed, classes,
                  timetableEntries, draggingEvent, editingEvent, isEditModalOpen,
                  pendingAction, confirmedAction, confirmModalType, confirmModalVisible,
                  attendanceSessions >>

\* the calendar screens and the attendance page, each on its own part of
\* the remote store
PagesInit == StoreInit \/ AttendanceInit

PagesNext ==
  \/ StoreNext
  \/ AttendanceSnapshot
  \/ SelectStaff
  \/ CheckIn

PagesSpec == PagesInit /\ [][PagesNext]_vars

\* the admin screen, mounted on a timetable without records, when the user
\* goes on acting while the writes of a confirmed action are awaited
AsyncInit == StoreInit /\ screen = "admin" /\ storeTimetable = << >>

AsyncNext ==
  \/ TimetableSnapshot
  \/ ClassesSnapshot
  \/ AdminDragStart
  \/ AdminDragEnd
  \/ AdminDrop
  \/ AdminConfirmPick
  \/ AdminConfirmSettled
  \/ AdminConfirmCancel
  \/ AdminEditSchedule
  \/ AdminEditCancel
  \/ AdminSaveScheduleClick
  \/ DeleteSchedule

AsyncSpec == AsyncInit /\ [][AsyncNext]_vars

(* ------------------------- claims: vocabulary ------------------------- *)

\* the time of day of a well-formed "HH:mm" string, in minutes
MinuteOfDay(t) == (t[1] * 10 + t[2]) * 60 + t[4] * 10 + t[5]

\* the intervals of two events overlap: A.start < B.end and B.start < A.end
Overlap(a, b) ==
  /\ MinuteOfDay(a.start) < MinuteOfDay(b.end)
  /\ MinuteOfDay(b.start) < MinuteOfDay(a.end)

WellFormed(evs) == ~HasMissing(evs)

PositiveDurations(evs) ==
  /\ WellFormed(evs)
  /\ \A i \in 1..Len(evs) : MinuteOfDay(evs[i].start) < MinuteOfDay(evs[i].end)

AdminDone == adminStatus = "ok" /\ WellFormed(events)
TeacherDone == teacherStatus = "ok"

\* some two events of the day overlap
SomeOverlap(evs) ==
  \E i, j \in 1..Len(evs) : i # j /\ Overlap(evs[i], evs[j])

\* a chain: A-B and B-C overlap, A-C do not
HasChain(evs) ==
  \E i, j, k \in 1..Len(evs) :
     /\ Overlap(evs[i], evs[j]) /\ Overlap(evs[j], evs[k])
     /\ i # k /\ ~Overlap(evs[i], evs[k])

(* ------------------------------- claims ------------------------------- *)

\* C1: admin layout - any two events of the day whose intervals overlap are
\* assigned different columns (well-formed HH:mm times).
C1_AdminOverlapDistinctColumns ==
  AdminDone =>
    \A i, j \in 1..Len(positionedEvents) :
       (i # j /\ Overlap(positionedEvents[i].event, positionedEvents[j].event))
         => positionedEvents[i].column # positionedEvents[j].column

C1_Witness ==
  /\ AdminDone /\ Len(positionedEvents) >= 3 /\ HasChain(events)
  /\ \E i \in 1..Len(positionedEvents) : positionedEvents[i].column = 2

\* C2: teacher layout - after the day has been processed, any two events of
\* the day whose intervals overlap have different columns.
C2_TeacherOverlapDistinctColumns ==
  (TeacherDone /\ PositiveDurations(events)) =>
    \A i, j \in 1..Len(weekEvents) :
       (i # j /\ Overlap(weekEvents[i].event, weekEvents[j].event))
         => weekEvents[i].column # weekEvents[j].column

\* C3: admin layout - after the final pass, any two events whose intervals
\* directly overlap have equal totalColumns, chains included.
C3_AdminOverlapEqualTotals ==
  (AdminDone /\ PositiveDurations(events)) =>
    \A i, j \in 1..Len(positionedEvents) :
       Overlap(positionedEvents[i].event, positionedEvents[j].event)
         => positionedEvents[i].totalColumns = positionedEvents[j].totalColumns

\* the overlap cluster of event i: the events connected to it by a path of
\* pairwise overlaps
RECURSIVE Grow(_, _)
Grow(evs, members) ==
  LET more == members \cup { j \in 1..Len(evs) : \E i \in members : Overlap(evs[i], evs[j]) }
  IN  IF more = members THEN members ELSE Grow(evs, more)

Cluster(evs, i) == Grow(evs, { i })

\* the largest number of events of a cluster active at one instant (it is
\* reached at the start of some event)
MaxActive(evs, members) ==
  Max({ Cardinality({ j \in members :
                       /\ MinuteOfDay(evs[j].start) <= MinuteOfDay(evs[i].start)
                       /\ MinuteOfDay(evs[i].start) < MinuteOfDay(evs[j].end) }) :
        i \in members })

PositionedEventsOf(positioned) == [i \in 1..Len(positioned) |-> positioned[i].event]

\* C4: admin layout - all members of an overlap cluster end with the same
\* totalColumns, the largest number of its events active at one instant.
C4_AdminClusterTotals ==
  (AdminDone /\ PositiveDurations(events)) =>
    LET evs == PositionedEventsOf(positionedEvents)
    IN  \A i \in 1..Len(evs) :
           positionedEvents[i].totalColumns = MaxActive(evs, Cluster(evs, i))

\* C5: admin screen - the horizontal extents [column/totalColumns,
\* (column+1)/totalColumns) of two overlapping events are disjoint.
C5_AdminExtentsDisjoint ==
  (AdminDone /\ PositiveDurations(events)) =>
    \A i, j \in 1..Len(adminBoxes) :
       (i # j /\ Overlap(positionedEvents[i].event, positionedEvents[j].event)) =>
          LET a == adminBoxes[i]
              b == adminBoxes[j]
          IN  \/ (a.leftNum + a.widthNum) * b.den <= b.leftNum * a.den
              \/ (b.leftNum + b.widthNum) * a.den <= a.leftNum * b.den

\* C6: both layouts - every positioned event has column >= 0,
\* totalColumns >= 1 and column < totalColumns.
C6_ColumnWithinTotal ==
  /\ \A i \in 1..Len(positionedEvents) :
        /\ positionedEvents[i].column >= 0
        /\ positionedEvents[i].totalColumns >= 1
        /\ positionedEvents[i].column < positionedEvents[i].totalColumns
  /\ \A i \in 1..Len(weekEvents) :
        /\ weekEvents[i].column >= 0
        /\ weekEvents[i].totalColumns >= 1
        /\ weekEvents[i].column < weekEvents[i].totalColumns

C6_Witness ==
  /\ AdminDone /\ TeacherDone
  /\ \E i \in 1..Len(positionedEvents) : positionedEvents[i].column = 2
  /\ \E i \in 1..Len(weekEvents) : weekEvents[i].column = 2

\* C7: both layouts - if no two events of the day overlap (touching events
\* and the single event included), every event has column 0, totalColumns 1.
C7_NoOverlapSingleColumn ==
  (WellFormed(events) /\ ~SomeOverlap(events)) =>
    /\ adminStatus = "ok" =>
          \A i \in 1..Len(positionedEvents) :
             positionedEvents[i].column = 0 /\ positionedEvents[i].totalColumns = 1
    /\ teacherStatus = "ok" =>
          \A i \in 1..Len(weekEvents) :
             weekEvents[i].column = 0 /\ weekEvents[i].totalColumns = 1

\* how often an event occurs in a sequence of events
Occurrences(evs, e) == Cardinality({ i \in 1..Len(evs) : evs[i] = e })

\* C8: admin layout - one positioned entry per input event, each carrying
\* the unmodified event (a permutation of the input); empty for empty input.
C8_AdminOutputIsPermutation ==
  adminStatus = "ok" =>
    LET out == PositionedEventsOf(positionedEvents)
    IN  /\ Len(out) = Len(events)
        /\ \A i \in 1..Len(events) : Occurrences(out, events[i]) = Occurrences(events, events[i])

C8_Witness ==
  /\ adminStatus = "ok" /\ Len(events) >= 3
  /\ PositionedEventsOf(positionedEvents) # events

\* C9: laying out and rendering a day with a missing start or end time, or
\* a zero-duration interval, never fails: every event gets a position.
C9_MalformedNeverFails ==
  /\ adminStatus # "threw"
  /\ teacherStatus # "threw"
  /\ adminStatus = "ok" => Len(adminBoxes) = Len(events)
  /\ teacherStatus = "ok" => Len(teacherBoxes) = Len(events)

\* the key of each weekday, Monday first: Monday..Saturday are 2..7 and
\* Sunday is 8
WeekdayKeys == << 2, 3, 4, 5, 6, 7, 8 >>
KeyOfWeekday(date) == WeekdayKeys[(date.day % 7) + 1]

\* the keys the sites of both screens compute for one date
SiteKeys(date) ==
  { DayKeyAdminLookup(date), DayKeyAdminSlotLookup(date), DayKeyAdminSave(FormatDate(date)),
    DayKeyAdminMoveAll(date), DayKeyAdminMove(date),
    DayKeyTeacherLookup(date), DayKeyTeacherDrop(date), DayKeyTeacherSave(date) }

\* the keys under which the lookups of the two screens search the map for
\* the date of an entry
LookupKeys(entry) ==
  { << entry.classId, FormatDate(ParseDate(entry.ngay)), DayKeyAdminLookup(ParseDate(entry.ngay)) >>,
    << entry.classId, FormatDate(ParseDate(entry.ngay)), DayKeyTeacherLookup(ParseDate(entry.ngay)) >> }

\* C10: the day-of-week key of a date is 2..7 for Monday..Saturday and 8 for
\* Sunday, at every site that computes it (lookup, drop, save, move of both
\* screens); it is injective over the seven days of the week and always in
\* 2..8; every record written to the timetable and every session written to
\* a class carries the key of its date, so that the lookup of either screen
\* for the date of a record builds the key under which the record is stored
\* and finds a record there.
C10_DayKeyMatchesLookup ==
  /\ \A date \in PickerDates \cup Range(weekDays) :
       /\ SiteKeys(date) = { KeyOfWeekday(date) }
       /\ SiteKeys(date) \subseteq 2..8
  /\ \A i, j \in 1..7 : i # j => SiteKeys(weekDays[i]) \cap SiteKeys(weekDays[j]) = { }
  /\ \A entry \in Range(storeTimetable) :
       /\ entry.thu = KeyOfWeekday(ParseDate(entry.ngay))
       /\ LookupKeys(entry) = { EntryKey(entry) }
  /\ \A entry \in Range(timetableEntries) :
       \A key \in LookupKeys(entry) : MapGet(timetableEntries, key) # Null
  /\ \A c \in 1..Len(storeClasses) :
       \A sess \in Range(storeClasses[c].lichHoc) : sess.thu \in 2..8

\* a record written for a Sunday has been delivered and is on display as the
\* custom event of that Sunday
C10_Witness ==
  /\ writes > 0
  /\ \E entry \in Range(timetableEntries) :
       /\ DayOf(ParseDate(entry.ngay)) = 0
       /\ entry.thu = 8
       /\ \E ev \in (IF screen = "admin" THEN DisplayedAdmin ELSE DisplayedTeacher) :
            ev.isCustomSchedule /\ ev.scheduleId = entry.id

\* C11: a call of groupOverlappingEvents has no side effects - the list it
\* was given keeps its order and its events unmodified, and the call changes
\* no component state and writes nothing to the remote store.
C11_LayoutHasNoSideEffects ==
  [][(adminStatus = "idle" /\ adminStatus' = "ok")
       => (events' = events /\ UNCHANGED storeVars)]_vars

\* a day given out of start order, with overlapping events, has been laid out
C11_Witness ==
  /\ AdminDone /\ SomeOverlap(events)
  /\ SortByStart(events) # events
  /\ \E i \in 1..Len(positionedEvents) : positionedEvents[i].totalColumns > 1

\* the orders in which a list of n events can be supplied
InputOrders(n) ==
  { f \in [1..n -> 1..n] : \A i, j \in 1..n : i # j => f[i] # f[j] }
Permuted(evs, f) == [i \in 1..Len(evs) |-> evs[f[i]]]

DistinctStarts(evs) ==
  \A i, j \in 1..Len(evs) : i # j => evs[i].start # evs[j].start

\* the column of each event, by the identity of the event
ColumnsOf(positioned) ==
  { << positioned[i].event.id, positioned[i].column >> : i \in 1..Len(positioned) }

\* C12: running the admin layout again on the same list gives every event
\* the same column and totalColumns; and when the start times of the day are
\* pairwise distinct, the column of every event is the same in whatever
\* order the events are supplied.
C12_LayoutRepeatableAndOrderFree ==
  AdminDone =>
    /\ groupOverlappingEvents(events) = positionedEvents
    /\ DistinctStarts(events) =>
         \A f \in InputOrders(Len(events)) :
            ColumnsOf(groupOverlappingEvents(Permuted(events, f))) = ColumnsOf(positionedEvents)

\* three events with distinct starts, supplied out of start order, of which
\* some overlap
C12_Witness ==
  /\ AdminDone /\ Len(events) >= 3 /\ DistinctStarts(events)
  /\ SortByStart(events) # events
  /\ \E i \in 1..Len(positionedEvents) : positionedEvents[i].column > 0

\* the events of the day that share the interval of the i-th event
SameInterval(evs, i) ==
  { j \in 1..Len(evs) : evs[j].start = evs[i].start /\ evs[j].end = evs[i].end }

\* the i-th event and the events sharing its interval overlap no other event
OnlyEachOther(evs, i) ==
  \A j \in 1..Len(evs) : Overlap(evs[i], evs[j]) => j \in SameInterval(evs, i)

\* the admin position of the event with a given identity
PositionOf(positioned, id) ==
  positioned[CHOOSE x \in 1..Len(positioned) : positioned[x].event.id = id]

\* C13: in both layouts, k >= 2 events of a day that share one interval of
\* positive length (and overlap nothing else) get the k columns 0..k-1, one
\* each, and every one of them gets totalColumns = k.
C13_SameIntervalFillsColumns ==
  PositiveDurations(events) =>
    \A i \in 1..Len(events) :
       LET group == SameInterval(events, i)
           k == Cardinality(group)
       IN  (k >= 2 /\ OnlyEachOther(events, i)) =>
             /\ adminStatus = "ok" =>
                  /\ { PositionOf(positionedEvents, events[j].id).column : j \in group } = 0..(k - 1)
                  /\ \A j \in group : PositionOf(positionedEvents, events[j].id).totalColumns = k
             /\ teacherStatus = "ok" =>
                  /\ { weekEvents[j].column : j \in group } = 0..(k - 1)
                  /\ \A j \in group : weekEvents[j].totalColumns = k

\* both screens have laid out a day with three events of one interval
C13_Witness ==
  /\ adminStatus = "ok" /\ teacherStatus = "ok" /\ PositiveDurations(events)
  /\ \E i \in 1..Len(events) :
       /\ Cardinality(SameInterval(events, i)) = 3 /\ OnlyEachOther(events, i)
       /\ weekEvents[i].column = 2
       /\ \E j \in SameInterval(events, i) :
            PositionOf(positionedEvents, events[j].id).column = 2

\* C14: for the chain A[09:00-10:00], B[09:30-10:30], C[10:15-11:00],
\* supplied in any order, the admin layout gives A column 0 and B column 1,
\* C a column other than B's, and totalColumns 2 to A, B and C.
C14_ChainScenario ==
  (adminStatus = "ok" /\ events \in ChainDays) =>
    LET A == PositionOf(positionedEvents, 1)
        B == PositionOf(positionedEvents, 2)
        C == PositionOf(positionedEvents, 3)
    IN  /\ A.column = 0 /\ B.column = 1
        /\ A.totalColumns = 2 /\ B.totalColumns = 2
        /\ C.column # B.column
        /\ C.totalColumns = 2

\* the chain, supplied as C, B, A, has been laid out
C14_Witness ==
  /\ adminStatus = "ok"
  /\ events = << ChainEvents[3], ChainEvents[2], ChainEvents[1] >>
  /\ Len(positionedEvents) = 3

\* the duration of a well-formed event, in minutes
Duration(ev) == MinuteOfDay(ev.end) - MinuteOfDay(ev.start)

EventOf(evs, id) == evs[CHOOSE x \in 1..Len(evs) : evs[x].id = id]

\* C15: on both screens the rendered height of an event is the larger of
\* its duration in minutes and a positive minimum: it is never zero or
\* negative, also when the end time equals or precedes the start time.
C15_RenderedHeightFloor ==
  WellFormed(events) =>
    /\ \E floor \in 1..60 :
         \A i \in 1..Len(adminBoxes) :
            adminBoxes[i].height = Max({ Duration(EventOf(events, adminBoxes[i].id)), floor })
    /\ \E floor \in 1..60 :
         \A i \in 1..Len(teacherBoxes) :
            /\ teacherBoxes[i].height > 0
            /\ teacherBoxes[i].height = Max({ Duration(events[i]), floor })

\* the place of the event with a given identity in the list supplied
IndexIn(evs, id) == CHOOSE x \in 1..Len(evs) : evs[x].id = id

\* C16: the admin layout returns the events in ascending order of start
\* time, events of equal start in the order supplied, and the column of each
\* event is the smallest column 0, 1, 2, ... held by no event that precedes
\* it in that order and overlaps it.
C16_FirstFitInStartOrder ==
  AdminDone =>
    LET p == positionedEvents
        Start(i) == MinuteOfDay(p[i].event.start)
        Held(i) == { p[j].column : j \in { x \in 1..(i - 1) : Overlap(p[x].event, p[i].event) } }
    IN  /\ Len(p) = Len(events)
        /\ \A i, j \in 1..Len(p) :
             i < j => /\ Start(i) <= Start(j)
                      /\ Start(i) = Start(j) =>
                           IndexIn(events, p[i].event.id) < IndexIn(events, p[j].event.id)
        /\ \A i \in 1..Len(p) :
             /\ p[i].column >= 0
             /\ p[i].column \notin Held(i)
             /\ \A c \in 0..(p[i].column - 1) : c \in Held(i)

\* a day supplied out of start order, with two events of equal start, on
\* which an event took column 0 again behind an event in column 1
C16_Witness ==
  /\ AdminDone /\ SortByStart(events) # events /\ ~DistinctStarts(events)
  /\ \E i, j \in 1..Len(positionedEvents) :
       i < j /\ positionedEvents[i].column = 1 /\ positionedEvents[j].column = 0

\* the events of the overlap cluster of the i-th event, in the order supplied
ClusterAlone(evs, i) ==
  LET members == Cluster(evs, i)
      ids == { evs[j].id : j \in members }
      InCluster(ev) == ev.id \in ids
  IN  SelectSeq(evs, InCluster)

\* C17: in the admin layout the column and totalColumns of an event are
\* those it gets when its overlap cluster is laid out alone; the other
\* clusters of the day have no influence on them.
C17_ClusterAloneSameResult ==
  AdminDone =>
    \A i \in 1..Len(events) :
       LET alone == PositionOf(groupOverlappingEvents(ClusterAlone(events, i)), events[i].id)
           whole == PositionOf(positionedEvents, events[i].id)
       IN  /\ whole.column = alone.column
           /\ whole.totalColumns = alone.totalColumns

\* a day with a cluster of three columns and an event outside of it that
\* keeps totalColumns 1
C17_Witness ==
  /\ AdminDone /\ PositiveDurations(events)
  /\ \E i, j \in 1..Len(positionedEvents) :
       /\ positionedEvents[i].totalColumns = 3
       /\ positionedEvents[j].totalColumns = 1
       /\ IndexIn(events, positionedEvents[j].event.id)
            \notin Cluster(events, IndexIn(events, positionedEvents[i].event.id))

\* what is shown for a class on the i-th day of the week, by each screen
ShownAdmin(cls, i) ==
  LET OfClass(ev) == ev.class.id = cls.id
  IN  SelectSeq(getEventsForDate(timetableEntries, classes, weekDays[i]), OfClass)
ShownTeacher(cls, i) ==
  LET OfClass(ev) == ev.class.id = cls.id
  IN  SelectSeq(TeacherEventsForDate(timetableEntries, classes, weekDays[i]), OfClass)

\* the records of the map stored for a class under a date and its key
CustomFor(cls, date) ==
  { entry \in Range(timetableEntries) :
      EntryKey(entry) = << cls.id, FormatDate(date), KeyOfWeekday(date) >> }

\* some record of the class names the date as the date it replaces
ReplacedFor(cls, date) ==
  \E entry \in Range(timetableEntries) :
     /\ entry.classId = cls.id
     /\ entry.thayTheNgay = FormatDate(date)
     /\ entry.thayTheThu = KeyOfWeekday(date)

\* the events shown are the rule of event resolution applied to the class
Resolved(shown, cls, date) ==
  LET OnDay(sess) == sess.thu = KeyOfWeekday(date)
      recurring == SelectSeq(cls.lichHoc, OnDay)
  IN  IF CustomFor(cls, date) # { }
      THEN /\ Len(shown) = 1
           /\ shown[1].isCustomSchedule
           /\ CustomFor(cls, date) = { entry \in Range(timetableEntries) :
                                         entry.id = shown[1].scheduleId }
      ELSE IF ReplacedFor(cls, date)
      THEN shown = << >>
      ELSE /\ Len(shown) = Len(recurring)
           /\ \A k \in 1..Len(shown) :
                /\ ~shown[k].isCustomSchedule
                /\ shown[k].scheduleId = NoId
                /\ shown[k].schedule = recurring[k]

\* C18: for a class on a date, both screens show exactly the custom event of
\* the record stored under classId_date_dayOfWeek if there is one; otherwise
\* nothing if a record of the class replaces that date; otherwise exactly
\* the recurring sessions of that day of the week.
C18_EventResolution ==
  \A c \in 1..Len(classes) : \A i \in 1..7 :
     /\ Resolved(ShownAdmin(classes[c], i), classes[c], weekDays[i])
     /\ Resolved(ShownTeacher(classes[c], i), classes[c], weekDays[i])

\* one week shows the three cases: a custom event, a replaced date with
\* nothing shown, and a recurring session
C18_Witness ==
  \E c \in 1..Len(classes) : \E i, j, k \in 1..7 :
     /\ CustomFor(classes[c], weekDays[i]) # { } /\ Len(ShownAdmin(classes[c], i)) = 1
     /\ CustomFor(classes[c], weekDays[j]) = { } /\ ReplacedFor(classes[c], weekDays[j])
     /\ ShownTeacher(classes[c], j) = << >>
     /\ CustomFor(classes[c], weekDays[k]) = { } /\ ~ReplacedFor(classes[c], weekDays[k])
     /\ Len(ShownAdmin(classes[c], k)) = 1

\* the screen has received the current content of the remote store
Delivered == timetableEntries = SnapshotMap(storeTimetable) /\ classes = storeClasses

\* the calendar day of an event (a date string on the admin screen, a Dayjs
\* on the teacher screen)
EventDay(ev) == IF screen = "admin" THEN ev.date ELSE FormatDate(ev.date)

\* the events the mounted screen shows on the i-th day of the week for a
\* content of the remote store that has been delivered
ShownOn(data, classList, i) ==
  IF screen = "admin" THEN getEventsForDate(SnapshotMap(data), classList, weekDays[i])
  ELSE TeacherEventsForDate(SnapshotMap(data), classList, weekDays[i])

\* the event that a drop, or the confirmation of a drop, moves
MovedEvent == IF draggingEvent # Null THEN draggingEvent ELSE pendingAction.event

\* the step is a successful move "for this date only" of an event on display
ThisDateOnlyMove ==
  /\ Delivered
  /\ \/ draggingEvent # Null
     \/ confirmModalVisible /\ confirmModalType = "drag" /\ pendingAction # Null
  /\ writes' = writes + 1 /\ pushed' = pushed + 1 /\ message' = "success"
  /\ MovedEvent \in Range(ShownOn(storeTimetable, storeClasses, EventDay(MovedEvent) + 1))

\* C19: a successful move "for this date only" of an event on display, once
\* the new snapshot is delivered, shows the occurrence on the target date
\* and no longer on the date it was moved from, and changes nothing else:
\* every other day of the week shows as many events as before (nothing is
\* shown twice, nothing disappears).  By induction the same holds after any
\* sequence of such moves.
C19_MoveKeepsEveryOccurrence ==
  [][ThisDateOnlyMove =>
       LET ev == MovedEvent
           from == EventDay(ev) + 1
           created == CHOOSE entry \in Range(storeTimetable') : entry.id = pushed'
           to == created.ngay + 1
           Before(i) == ShownOn(storeTimetable, storeClasses, i)
           After(i) == ShownOn(storeTimetable', storeClasses', i)
           IsMoved(e) == /\ e.class.id = ev.class.id
                         /\ e.schedule.start = ev.schedule.start
                         /\ e.schedule.end = ev.schedule.end
       IN  /\ \E e \in Range(After(to)) : IsMoved(e) /\ e.scheduleId = created.id
           /\ \A e \in Range(After(from)) : ~IsMoved(e)
           /\ \A i \in 1..7 :
                Len(After(i)) = Len(Before(i)) + (IF i = to THEN 1 ELSE 0)
                                               - (IF i = from THEN 1 ELSE 0)]_vars

\* the custom event that a drop, or a save of the teacher form, is about
CustomEventInHand ==
  IF draggingEvent # Null THEN draggingEvent
  ELSE IF confirmModalVisible /\ confirmModalType = "drag" /\ pendingAction # Null
  THEN pendingAction.event
  ELSE editingEvent

EntryIds(data) == { data[i].id : i \in 1..Len(data) }
RecordWithId(data, id) == data[CHOOSE i \in 1..Len(data) : data[i].id = id]

\* the step successfully moves the record of a custom event to another date
CustomEntryMove ==
  /\ Delivered
  /\ CustomEventInHand # Null
  /\ CustomEventInHand.scheduleId # NoId
  /\ CustomEventInHand.scheduleId \in EntryIds(storeTimetable)
  /\ writes' = writes + 1 /\ pushed' = pushed + 1 /\ message' = "success"

\* C20: a successful move of a custom record of the store to another date
\* (admin drop, teacher drop, teacher save with a new date) removes the old
\* record and creates exactly one new record on another date; when the old
\* record had
\* "Thay thế ngày" / "Thay thế thứ" the new one carries the same values,
\* and the date they name still shows no recurring session of the class.
C20_CustomMoveKeepsReplacedDate ==
  [][CustomEntryMove =>
       LET old == RecordWithId(storeTimetable, CustomEventInHand.scheduleId)
           created == RecordWithId(storeTimetable', pushed')
       IN  /\ EntryIds(storeTimetable') = (EntryIds(storeTimetable) \ { old.id }) \cup { pushed' }
           /\ Len(storeTimetable') = Len(storeTimetable)
           /\ pushed' \notin EntryIds(storeTimetable)
           /\ created.classId = old.classId
           /\ created.ngay # old.ngay
           /\ old.thayTheNgay # NoDate =>
                /\ created.thayTheNgay = old.thayTheNgay
                /\ created.thayTheThu = old.thayTheThu
                /\ old.thayTheNgay \in 0..6 =>
                     \A e \in Range(ShownOn(storeTimetable', storeClasses', old.thayTheNgay + 1)) :
                        e.class.id = old.classId => e.isCustomSchedule]_vars

(* ------------------- C21: a drop on the own date ---------------------- *)

\* the step is a drop of the dragged event on the column of its own date
AdminDropOnOwnDate(i) ==
  /\ screen = "admin"
  /\ draggingEvent # Null
  /\ FormatDate(weekDays[i]) = draggingEvent.date
  /\ AdminDropOn(weekDays[i])

TeacherDropOnOwnDate(i) ==
  /\ screen = "teacher"
  /\ draggingEvent # Null
  /\ FormatDate(weekDays[i]) = FormatDate(draggingEvent.date)
  /\ TeacherDropOn(weekDays[i])

\* the step is a drop while no event is being dragged
DropWithoutDrag(i) ==
  /\ draggingEvent = Null
  /\ (AdminDropOn(weekDays[i]) \/ TeacherDropOn(weekDays[i]))

DefaultInHand(ev) == ev # Null /\ ~(ev.isCustomSchedule /\ ev.scheduleId # NoId)
CustomInHand(ev) == ev # Null /\ ev.isCustomSchedule /\ ev.scheduleId # NoId

StoreUnwritten == UNCHANGED << storeTimetable, storeClasses, pushed, writes >>

\* C22: on the admin screen the drop or the save of a default event writes
\* nothing to the remote store and a write happens only with the confirm
\* modal open (a pick of one of its two options) or for a custom event;
\* cancelling the modal writes nothing; the drop or the save of a custom
\* event with a scheduleId is written at once as a change of that date only,
\* without the confirm modal
C22_ConfirmModalGatesWrites ==
  [][screen = "admin" =>
       /\ \A i \in 1..7 :
            (DefaultInHand(draggingEvent) /\ AdminDropOn(weekDays[i])) => StoreUnwritten
       /\ (DefaultInHand(editingEvent) /\ AdminSaveScheduleClick) => StoreUnwritten
       /\ AdminConfirmCancel => StoreUnwritten
       /\ writes' # writes =>
            \/ confirmModalVisible /\ AdminConfirmAction
            \/ CustomInHand(draggingEvent)
            \/ CustomInHand(editingEvent)
       /\ \A i \in 1..7 :
            ( /\ CustomInHand(draggingEvent)
              /\ FormatDate(weekDays[i]) # draggingEvent.date
              /\ AdminDropOn(weekDays[i]) )
            => /\ writes' = writes + 1
               /\ ~confirmModalVisible' /\ pendingAction' = pendingAction
               /\ storeClasses' = storeClasses
               /\ \E okRemove, okSet \in BOOLEAN :
                    storeTimetable' =
                      moveScheduleThisDateOnly(storeTimetable, storeClasses, pushed,
                        timetableEntries, draggingEvent, weekDays[i], okRemove, okSet).timetable
       /\ (CustomInHand(editingEvent) /\ AdminSaveScheduleClick)
            => /\ writes' = writes + 1
               /\ ~confirmModalVisible' /\ pendingAction' = pendingAction
               /\ storeClasses' = storeClasses
               /\ \E values \in FormChoices, okSet \in BOOLEAN :
                    storeTimetable' =
                      saveScheduleThisDateOnly(storeTimetable, storeClasses, pushed,
                        editingEvent, values, okSet).timetable]_vars

\* the confirm modal is open for the drop of a default event and nothing
\* has been written
C22_Witness ==
  /\ screen = "admin"
  /\ confirmModalVisible /\ confirmModalType = "drag"
  /\ pendingAction # Null /\ DefaultInHand(pendingAction.event)
  /\ writes = 0 /\ draggingEvent = Null

(* --------------- C23: the pending action of the modal ----------------- *)

\* C23: whenever the admin confirm modal is visible pendingAction is not
\* null, so that a pick of either option runs the save or the move of the
\* event shown in the modal, also when the modal was opened by a drop or a
\* save while the writes of an earlier confirmed action were awaited
C23_VisibleModalHasPendingAction ==
  (screen = "admin" /\ confirmModalVisible) => pendingAction # Null

(* ---------------- C24: a save for this date only ---------------------- *)

\* the event that a save, or the confirmation of a save, is about
EditedEvent == IF confirmModalVisible THEN pendingAction.event ELSE editingEvent

\* the step is a successful saveScheduleThisDateOnly of an event on display
ThisDateOnlySave ==
  /\ screen = "admin" /\ Delivered
  /\ \/ ~confirmModalVisible /\ CustomInHand(editingEvent) /\ AdminSaveScheduleClick
     \/ /\ confirmModalVisible /\ confirmModalType = "edit" /\ pendingAction # Null
        /\ AdminConfirmAction
  /\ message' = "success"
  /\ \E values \in FormChoices :
       storeTimetable' = saveScheduleThisDateOnly(storeTimetable, storeClasses, pushed,
                                                  EditedEvent, values, TRUE).timetable
  /\ EditedEvent \in Range(ShownOn(storeTimetable, storeClasses, EventDay(EditedEvent) + 1))

\* C24: a successful saveScheduleThisDateOnly of an event on display writes
\* exactly one timetable record, for the class and the date of the event
\* (the record with the scheduleId when the event has one, a new record
\* otherwise), leaves the class records alone, and once the snapshot is
\* delivered every other day of the week shows the same events as before
C24_SaveThisDateOnlyFrame ==
  [][ThisDateOnlySave =>
       LET ev == EditedEvent
           id == IF ev.scheduleId # NoId THEN ev.scheduleId ELSE pushed'
           written == RecordWithId(storeTimetable', id)
       IN  /\ storeClasses' = storeClasses
           /\ id \in EntryIds(storeTimetable')
           /\ ev.scheduleId = NoId => pushed' = pushed + 1 /\ id \notin EntryIds(storeTimetable)
           /\ written.classId = ev.class.id /\ written.ngay = ev.date
           /\ RemoveEntry(storeTimetable', id) = RemoveEntry(storeTimetable, id)
           /\ \A i \in 1..7 :
                i # ev.date + 1 =>
                  ShownOn(storeTimetable', storeClasses', i)
                    = ShownOn(storeTimetable, storeClasses, i)]_vars

(* ------------------ C25: a save for all weeks ------------------------- *)

\* the step is a run of saveScheduleAllWeeks for an event on display
AllWeeksSave ==
  /\ screen = "admin" /\ Delivered
  /\ confirmModalVisible /\ confirmModalType = "edit" /\ pendingAction # Null
  /\ AdminConfirmAction
  /\ pushed' = pushed
  /\ pendingAction.event
       \in Range(ShownOn(storeTimetable, storeClasses, EventDay(pendingAction.event) + 1))

ClassWithId(classList, id) == classList[CHOOSE c \in 1..Len(classList) : classList[c].id = id]

\* C25: saveScheduleAllWeeks of an event on display either fails on the
\* class record and changes nothing, or rewrites "Lịch học" of the class so
\* that exactly the sessions with the weekday, start and end of the event
\* get the new times with the weekday unchanged, every other session and
\* every other class stay as they were and the length is kept; it writes no
\* timetable record and deletes only records of that class whose "Thứ" is
\* that weekday
C25_SaveAllWeeksRewrite ==
  [][AllWeeksSave =>
       LET ev == pendingAction.event
           w == ev.schedule.thu
           values == pendingAction.newValues
           old == ClassWithId(storeClasses, ev.class.id).lichHoc
           new == ClassWithId(storeClasses', ev.class.id).lichHoc
           Matches(session) == /\ session.thu = w
                               /\ session.start = ev.schedule.start
                               /\ session.end = ev.schedule.end
       IN  /\ \/ /\ message' = "error"
                 /\ storeClasses' = storeClasses /\ storeTimetable' = storeTimetable
              \/ /\ Len(storeClasses') = Len(storeClasses)
                 /\ \A c \in 1..Len(storeClasses) :
                      storeClasses[c].id # ev.class.id => storeClasses'[c] = storeClasses[c]
                 /\ Len(new) = Len(old)
                 /\ \E i \in 1..Len(old) : Matches(old[i])
                 /\ \A i \in 1..Len(old) :
                      IF Matches(old[i])
                      THEN /\ new[i].thu = w
                           /\ new[i].start = FormatHHmm(values.start)
                           /\ new[i].end = FormatHHmm(values.end)
                      ELSE new[i] = old[i]
           /\ Range(storeTimetable') \subseteq Range(storeTimetable)
           /\ \A entry \in Range(storeTimetable) \ Range(storeTimetable') :
                entry.classId = ev.class.id /\ entry.thu = w]_vars

\* a save for all weeks has succeeded: the Monday session has the times of
\* the form and the one record of the timetable, a record of the class with
\* "Thứ" = 2 created by an earlier write, has been deleted
C25_Witness ==
  /\ screen = "admin" /\ message = "success" /\ writes > 1
  /\ \E c \in 1..Len(storeClasses) : \E i \in 1..Len(storeClasses[c].lichHoc) :
       /\ storeClasses[c].lichHoc[i].thu = 2
       /\ storeClasses[c].lichHoc[i].start = FormatHHmm(FormMinute)
  /\ pushed = 1 /\ storeTimetable = << >>

(* ------------------ C26: a move for all weeks ------------------------- *)

\* the step is a successful moveScheduleAllWeeks of an event on display
AllWeeksMove ==
  /\ screen = "admin" /\ Delivered
  /\ confirmModalVisible /\ confirmModalType = "drag" /\ pendingAction # Null
  /\ AdminConfirmAction
  /\ pushed' = pushed /\ message' = "success"
  /\ pendingAction.event
       \in Range(ShownOn(storeTimetable, storeClasses, EventDay(pendingAction.event) + 1))

\* C26: after a successful moveScheduleAllWeeks of an event on display from
\* weekday w to weekday w2 the remote store holds no timetable record of
\* the class whose "Thứ" or "Thay thế thứ" is w, the matching recurring
\* session has "Thứ" = w2 with its times unchanged, and once the snapshots
\* are delivered the session is displayed on the day w2 of the week and not
\* on the day w
C26_MoveAllWeeksResult ==
  [][AllWeeksMove =>
       LET ev == pendingAction.event
           w == ev.schedule.thu
           w2 == KeyOfWeekday(pendingAction.targetDate)
           old == ClassWithId(storeClasses, ev.class.id).lichHoc
           new == ClassWithId(storeClasses', ev.class.id).lichHoc
           Matches(session) == /\ session.thu = w
                               /\ session.start = ev.schedule.start
                               /\ session.end = ev.schedule.end
           IsSession(e) == /\ e.class.id = ev.class.id
                           /\ ~e.isCustomSchedule
                           /\ e.schedule.start = ev.schedule.start
                           /\ e.schedule.end = ev.schedule.end
           After(i) == Range(ShownOn(storeTimetable', storeClasses', i))
       IN  /\ \A entry \in Range(storeTimetable') :
                entry.classId = ev.class.id => entry.thu # w /\ entry.thayTheThu # w
           /\ Len(new) = Len(old)
           /\ \E i \in 1..Len(old) : Matches(old[i])
           /\ \A i \in 1..Len(old) :
                Matches(old[i]) => new[i] = [old[i] EXCEPT !.thu = w2]
           /\ \A i \in 1..7 :
                /\ KeyOfWeekday(weekDays[i]) = w2 => \E e \in After(i) : IsSession(e)
                /\ KeyOfWeekday(weekDays[i]) = w => \A e \in After(i) : ~IsSession(e)]_vars

(* ------------------- C27: a remote write fails ------------------------ *)

\* the day columns other than the one of the event
OtherDays(ev) == { i \in 1..7 : FormatDate(weekDays[i]) # EventDay(ev) }

\* the results of the remote writes of one handler run, in the order in
\* which the handler issues them
WriteResults == BOOLEAN \X BOOLEAN

\* a write of a this-date-only move fails: the removal of the old record
\* when the event has one, or the creation of the new record
MoveFails(ev, f) == (ev.scheduleId # NoId /\ ~f[1]) \/ ~f[2]

\* a write of an all-weeks handler fails: the update of the class, or the
\* first removal when the map holds a record to remove
AllWeeksFails(ev, alsoReplaced, f) ==
  \/ ~f[1]
  \/ /\ ~f[2]
     /\ \E entry \in Range(timetableEntries) :
          /\ entry.classId = ev.class.id
          /\ \/ entry.thu = ev.schedule.thu
             \/ alsoReplaced /\ entry.thayTheThu = ev.schedule.thu

\* a write of the teacher save fails: the removal and the creation when a
\* record goes to another date, the one update or creation otherwise
TeacherSaveFails(ev, values, f) ==
  IF ev.scheduleId # NoId /\ FormatDate(values.ngay) # FormatDate(ev.date)
  THEN ~f[1] \/ ~f[2]
  ELSE ~f[2]

\* the outcomes of the runs of the admin handlers that the user can start
\* in the state and in which a remote write fails
FailedAdminRuns ==
  ( IF draggingEvent # Null /\ CustomInHand(draggingEvent)
    THEN { moveScheduleThisDateOnly(storeTimetable, storeClasses, pushed, timetableEntries,
                                    draggingEvent, weekDays[i], f[1], f[2]) :
             i \in OtherDays(draggingEvent),
             f \in { g \in WriteResults : MoveFails(draggingEvent, g) } }
    ELSE { } )
  \cup
  ( IF confirmModalVisible /\ pendingAction # Null
    THEN LET ev == pendingAction.event
             type == confirmModalType
         IN  { ConfirmedOutcome(pendingAction, type, FALSE, timetableEntries, f[1], f[2]) :
                 f \in { g \in WriteResults :
                           IF type = "edit" THEN ~g[2] ELSE MoveFails(ev, g) } }
             \cup
             { ConfirmedOutcome(pendingAction, type, TRUE, timetableEntries, f[1], f[2]) :
                 f \in { g \in WriteResults : AllWeeksFails(ev, type = "drag", g) } }
    ELSE { } )
  \cup
  ( IF isEditModalOpen /\ ~confirmModalVisible /\ CustomInHand(editingEvent)
    THEN { saveScheduleThisDateOnly(storeTimetable, storeClasses, pushed, editingEvent,
                                    values, FALSE) : values \in FormChoices }
         \cup { handleDeleteSchedule(storeTimetable, storeClasses, pushed, editingEvent, FALSE) }
    ELSE { } )

\* the same for the handlers of the teacher screen
FailedTeacherRuns ==
  ( IF draggingEvent # Null
    THEN { TeacherDropWrites(storeTimetable, storeClasses, pushed, timetableEntries,
                             draggingEvent, weekDays[i], f[1], f[2]) :
             i \in OtherDays(draggingEvent),
             f \in { g \in WriteResults : MoveFails(draggingEvent, g) } }
    ELSE { } )
  \cup
  ( IF isEditModalOpen /\ editingEvent # Null
    THEN UNION { { TeacherSaveWrites(storeTimetable, storeClasses, pushed, timetableEntries,
                                     editingEvent, values, f[1], f[2]) :
                     f \in { g \in WriteResults : TeacherSaveFails(editingEvent, values, g) } } :
                 values \in TeacherFormChoices }
         \cup ( IF editingEvent.scheduleId # NoId
                THEN { handleDeleteSchedule(storeTimetable, storeClasses, pushed,
                                            editingEvent, FALSE) }
                ELSE { } )
    ELSE { } )

FailedScheduleRuns ==
  IF screen = "admin" THEN FailedAdminRuns
  ELSE IF screen = "teacher" THEN FailedTeacherRuns
  ELSE { }

\* the outcomes of the check-ins the user can start in which the write fails
FailedCheckIns ==
  IF screen = "attendance"
  THEN { outcome \in { handleCheckIn(storeAttendance, attendanceSessions, selectedStaffId,
                                      FALSE) } : outcome.wrote }
  ELSE { }

\* a handler run in which a remote write fails shows the error notification
\* and not the success one, and the failed write is not made later: no
\* timetable record and no attendance session is created or changed
FailureIsReported ==
  /\ \A outcome \in FailedScheduleRuns :
       /\ outcome.message = "error"
       /\ Range(outcome.timetable) \subseteq Range(storeTimetable)
  /\ \A outcome \in FailedCheckIns :
       /\ outcome.message = "error"
       /\ outcome.attendance = storeAttendance

\* a handler run that wrote ends with one notification, success or error,
\* and after the error the edit modal is still open on the same event
FailureKeepsModal ==
  writes' # writes =>
    /\ writes' = writes + 1
    /\ message' \in { "success", "error" }
    /\ (message' = "error" /\ isEditModalOpen) =>
         (isEditModalOpen' /\ editingEvent' = editingEvent)

\* C27: when a remote write of a save, move, delete or check-in handler
\* fails the error notification is shown and the success notification is
\* not, the failed write is not made later, and the edit modal stays open
\* with its editing event
C27_WriteFailureIsReported == [][FailureIsReported /\ FailureKeepsModal]_vars

\* a save or a delete has failed in the edit modal, which is still open, and
\* a failed run can be started again
C27_Witness ==
  /\ isEditModalOpen /\ editingEvent # Null
  /\ message = "error" /\ writes > 0
  /\ FailedScheduleRuns # { }

(* ----------- C28: a failed move for this date only -------------------- *)

\* the outcomes of the moves "for this date only" the user can start in the
\* state and in which a remote write fails: the drop of a custom event or
\* the pick of "this date only" on the admin screen, the drop or the save
\* with another date on the teacher screen
FailedThisDateOnlyMoves ==
  IF screen = "admin"
  THEN ( IF draggingEvent # Null /\ CustomInHand(draggingEvent)
         THEN { moveScheduleThisDateOnly(storeTimetable, storeClasses, pushed,
                                         timetableEntries, draggingEvent, weekDays[i],
                                         f[1], f[2]) :
                  i \in OtherDays(draggingEvent),
                  f \in { g \in WriteResults : MoveFails(draggingEvent, g) } }
         ELSE { } )
       \cup
       ( IF confirmModalVisible /\ pendingAction # Null /\ confirmModalType = "drag"
         THEN { moveScheduleThisDateOnly(storeTimetable, storeClasses, pushed,
                                         timetableEntries, pendingAction.event,
                                         pendingAction.targetDate, f[1], f[2]) :
                  f \in { g \in WriteResults : MoveFails(pendingAction.event, g) } }
         ELSE { } )
  ELSE IF screen = "teacher"
  THEN ( IF draggingEvent # Null
         THEN { TeacherDropWrites(storeTimetable, storeClasses, pushed, timetableEntries,
                                  draggingEvent, weekDays[i], f[1], f[2]) :
                  i \in OtherDays(draggingEvent),
                  f \in { g \in WriteResults : MoveFails(draggingEvent, g) } }
         ELSE { } )
       \cup
       ( IF isEditModalOpen /\ editingEvent # Null
         THEN UNION { { TeacherSaveWrites(storeTimetable, storeClasses, pushed,
                                          timetableEntries, editingEvent, values, f[1], f[2]) :
                          f \in { g \in WriteResults :
                                    TeacherSaveFails(editingEvent, values, g) } } :
                      values \in { v \in TeacherFormChoices :
                                     FormatDate(v.ngay) # FormatDate(editingEvent.date) } }
         ELSE { } )
  ELSE { }

\* C28: a move "for this date only" in which a remote write fails leaves
\* the timetable of the remote store as it was before the move; the record
\* of a custom event is still in the store when the creation of its
\* replacement fails
C28_FailedMoveLeavesStore ==
  \A outcome \in FailedThisDateOnlyMoves : outcome.timetable = storeTimetable

====
